---- MODULE Spec2Model ----
(***************************************************************************)
(* CareerVine: the calendar cache (sync, create-event, PATCH, DELETE, the  *)
(* calendar page) and the availability calculator with its picker.         *)
(***************************************************************************)
EXTENDS Integers, Sequences, FiniteSets, TLC

\* ------------------------------------------------------------------ bounds
MaxReq == 2          \* requests issued in one behaviour
MaxTime == 2         \* clock ticks
NumGids == 2         \* remote event ids Google can hand out

\* --------------------------------------------------------------- constants
Users == {"A", "B"}
NoUser == "anon"
Null == "null"
Never == 0 - 1
NoId == 0 - 1
NoTime == 0 - 1
Gids == 1..NumGids
Reqs == 1..MaxReq
PageUser == "A"

\* calendar_last_synced_at must be this old before the next sync is let in
Cooldown == 2

\* the window of start times one sync covers
WindowLo == 0
WindowHi == 1

VARIABLES
    now,          \* the server clock
    remote,       \* the remote calendars: a set of events, one per gid
    issued,       \* gids the remote calendar has handed out
    cache,        \* table calendar_events: a set of rows
    nextId,       \* the identity column of calendar_events
    lastSynced,   \* gmail_connections.calendar_last_synced_at per user
    deleteAbsent, \* the sync's delete-if-absent policy
    cache0,       \* the cache a behaviour starts from
    req,          \* the requests: slot -> request record
    pagePc,       \* the calendar page: "idle", "loading", "syncing", "syncLoading"
    pageReq,      \* the slot of the page's sync request
    pageError,    \* the page's error banner
    pageEvents,   \* the page's events state
    picker,       \* the availability picker's settings
    pickerOpen,   \* whether the picker's panel is open
    busy,         \* the busy intervals of the user's calendar, in minutes from today 00:00
    today,        \* the picker's day number (1 = Mon .. 7 = Sun) of the first day in range
    avDays,       \* the days of the availability response handleInsert got
    avMerged,     \* the merged busy list that response was computed from
    avError,      \* the picker's error text
    conns,        \* table gmail_connections: a set of rows
    evResp,       \* the last response of GET /api/calendar/events, with its request
    cbResp,       \* the last response of GET /api/gmail/callback, with its request
    env,          \* process.env: NODE_ENV and the six Supabase variables
    envRes,       \* the last call of getSupabaseEnv: its option and what it gave
    templates,    \* table email_templates: a set of rows
    tplResp,      \* the last response of GET /api/gmail/templates, with its request
    drafts,       \* table email_drafts: a set of rows
    nextDraftId,  \* the id the database gives the next draft
    draftResp,    \* the last response of POST /api/gmail/drafts, with its request
    contacts,     \* table contacts: a set of rows
    contactEmails, \* table contact_emails: a set of rows
    emailMsgs,    \* table email_messages: a set of rows
    meetings,     \* table meetings: a set of rows
    meetingContacts, \* table meeting_contacts: a set of rows
    rcResp,       \* the last response of GET resolve-contact, with its request
    mtResp,       \* the last response of GET /api/gmail/ai-write/meetings, with its request
    aiResp,       \* the last request of POST /api/gmail/ai-write, with what it sent to the AI
    compose,      \* the compose context: isOpen and the seven prefill and reply fields
    composeLog,   \* the calls of openCompose and closeCompose so far, and the last opts
    gmailConn,    \* the compose context: whether the Gmail connection is loaded
    unreadCount,  \* the compose context: unreadCount
    timers,       \* the pending setTimeout callbacks, oldest first
    fetches,      \* the unread-count fetches in flight
    fetchLog,     \* the fetches started so far and what the last started one returns
    profile       \* the stored availability profile, with the settings it was saved from

\* fixed when a behaviour starts
setup == <<deleteAbsent, cache0>>
calVars == <<now, remote, issued, cache, nextId, lastSynced, setup, req>>
pageVars == <<pagePc, pageReq, pageError, pageEvents>>
\* the variables of the other components
avVars == <<picker, pickerOpen, busy, today, avDays, avMerged, avError>>
envVars == <<env, envRes>>
tplVars == <<templates, tplResp>>
draftVars == <<drafts, nextDraftId, draftResp>>
crmTables == <<contacts, contactEmails, emailMsgs, meetings, meetingContacts>>
crmVars == <<crmTables, rcResp, mtResp, aiResp>>
crmButMeetings == <<contacts, contactEmails, emailMsgs, meetingContacts, rcResp, mtResp, aiResp>>
composeVars == <<compose, composeLog>>
unreadVars == <<gmailConn, unreadCount, timers, fetches, fetchLog>>
uiVars == <<composeVars, unreadVars>>
extVars == <<draftVars, crmVars, uiVars, profile>>
\* every component but the calendar's, the page's and the picker's
baseVars == <<calVars, pageVars, avVars, conns, evResp, cbResp, envVars, tplVars>>
moreVars == <<envVars, tplVars, extVars>>
otherVars == <<conns, evResp, cbResp, moreVars>>
restOfCal == <<avVars, otherVars>>
vars == <<restOfCal, calVars, pageVars>>

\* ------------------------------------------------------------------ values
FreeReq == [kind |-> "none", user |-> NoUser, gid |-> 0, body |-> Null,
            pc |-> "free", resp |-> 0,
            fetched |-> FALSE, todo |-> {}, snapIds |-> {},
            remoteOk |-> "none", wrote |-> FALSE, cacheErr |-> "none",
            page |-> FALSE, malformed |-> FALSE, meetingId |-> NoId]

\* The request bodies of create-event: summary, description, startTime, endTime.
CreateBodies ==
    { [summary |-> "t1", description |-> "d1", startTime |-> 0, endTime |-> 1,
       meetingId |-> NoId],
      [summary |-> "t1", description |-> Null, startTime |-> 1, endTime |-> 2,
       meetingId |-> NoId],
      [summary |-> Null, description |-> "d1", startTime |-> 0, endTime |-> 1,
       meetingId |-> NoId] }

\* The request bodies of PATCH; Null is a field the body does not carry.
PatchBodies ==
    { [summary |-> "t2", description |-> Null, startTime |-> NoTime, endTime |-> NoTime],
      [summary |-> Null, description |-> "d2", startTime |-> 1, endTime |-> 2] }

\* The remote calendars a behaviour starts from: an empty one, and one that
\* holds a private event of A made in the remote calendar itself.
InitRemotes ==
    { {},
      {[gid |-> 1, owner |-> "A", title |-> "s1", description |-> "sd",
        start_at |-> 0, end_at |-> 1, is_private |-> TRUE]} }

RemoteOf(u) == {e \in remote : e.owner = u}
RemoteHas(u, g) == \E e \in remote : e.owner = u /\ e.gid = g
NextGid == CHOOSE g \in Gids \ issued : \A h \in Gids \ issued : g <= h
FreeSlot == CHOOSE r \in Reqs : req[r].pc = "free" /\ \A q \in Reqs : req[q].pc = "free" => r <= q
HasFree == \E r \in Reqs : req[r].pc = "free"
Done(r) == req[r].pc = "done"

\* a string a JavaScript condition takes as true
Truthy(x) == x # Null /\ x # ""

\* if (id), for a numeric id: undefined and 0 are falsy
TruthyId(id) == id # NoId /\ id # 0

\* ------------------------------------------------------------- cache rows
MkRow(id, u, g, t, d, s, e, p) ==
    [id |-> id, user_id |-> u, google_event_id |-> g, title |-> t,
     description |-> d, start_at |-> s, end_at |-> e, is_private |-> p]

RowsFor(c, u, g) == {r \in c : r.user_id = u /\ r.google_event_id = g}

\* no unique index
NoUniqueIndex(c, u, g) == FALSE

\* The unique index on (user_id, google_event_id) that the upsert's conflict
\* target needs: an insert of a second row for the pair is refused.
UniqueViolation(c, u, g) == RowsFor(c, u, g) # {}

\* the private event's details are stored like any other's
SyncRowKeepsDetails(id, u, e) ==
    MkRow(id, u, e.gid, e.title, e.description, e.start_at, e.end_at, e.is_private)

\* A private event is stored by its flag alone, title and description cleared.
SyncRow(id, u, e) ==
    MkRow(id, u, e.gid,
          IF e.is_private THEN Null ELSE e.title,
          IF e.is_private THEN Null ELSE e.description,
          e.start_at, e.end_at, e.is_private)

\* a plain insert in place of the upsert
UpsertAsInsert(c, id, u, e) == c \cup {SyncRow(id, u, e)}

\* upsert keyed by (user_id, google_event_id): the row keeps its id
Upsert(c, id, u, e) ==
    IF RowsFor(c, u, e.gid) # {}
    THEN (c \ RowsFor(c, u, e.gid)) \cup {SyncRow(r.id, u, e) : r \in RowsFor(c, u, e.gid)}
    ELSE c \cup {SyncRow(id, u, e)}

InWindow(t) == WindowLo <= t /\ t <= WindowHi

\* what the remote list call returns for the window
FetchWindow(u) == {e \in RemoteOf(u) : InWindow(e.start_at)}

\* rows of the user in the window whose event the fetch did not return
StaleRows(c, u, ids) ==
    {r \in c : r.user_id = u /\ InWindow(r.start_at) /\ r.google_event_id \notin ids}

MinGid(S) == CHOOSE e \in S : \A f \in S : e.gid <= f.gid

\* create-event: the row inserted into calendar_events
CreateRow(id, u, g, body) ==
    MkRow(id, u, g, body.summary,
          IF Truthy(body.description) THEN body.description ELSE Null,
          body.startTime, body.endTime, FALSE)

\* a request body that lacks one of summary, startTime, endTime
MissingField(body) ==
    body.summary = Null \/ body.startTime = NoTime \/ body.endTime = NoTime

\* the summary is not asked for
CreateValidTimesOnly(body) == body.startTime # NoTime /\ body.endTime # NoTime

\* create-event: the fields that must be present
CreateValid(body) ==
    Truthy(body.summary) /\ body.startTime # NoTime /\ body.endTime # NoTime

\* PATCH: the update object applied to one cache row
PatchRow(r, body) ==
    [r EXCEPT !.title = IF Truthy(body.summary) THEN body.summary ELSE @,
              !.description = IF body.description # Null THEN body.description ELSE @,
              !.start_at = IF body.startTime # NoTime THEN body.startTime ELSE @,
              !.end_at = IF body.endTime # NoTime THEN body.endTime ELSE @]

PatchCacheRows(c, u, g, body) ==
    (c \ RowsFor(c, u, g)) \cup {PatchRow(r, body) : r \in RowsFor(c, u, g)}

DeleteCacheRows(c, u, g) == c \ RowsFor(c, u, g)

\* updateCalendarEvent: the remote event with the sent fields replaced
PatchEvent(e, body) ==
    [e EXCEPT !.title = IF body.summary # Null THEN body.summary ELSE @,
              !.description = IF body.description # Null THEN body.description ELSE @,
              !.start_at = IF body.startTime # NoTime THEN body.startTime ELSE @,
              !.end_at = IF body.endTime # NoTime THEN body.endTime ELSE @]

\* ------------------------------------------------------------------- Init
CalInit ==
    /\ now = 0
    /\ remote \in InitRemotes
    /\ issued = {e.gid : e \in remote}
    /\ cache = {}
    /\ nextId = 1
    /\ lastSynced = [u \in Users |-> Never]
    /\ deleteAbsent \in BOOLEAN
    /\ cache0 = cache
    /\ req = [r \in Reqs |-> FreeReq]

PageInit ==
    /\ pagePc = "loading"
    /\ pageReq = 0
    /\ pageError = ""
    /\ pageEvents = <<>>

\* the picker as it is first rendered
PickerDefault ==
    [duration |-> 30, daysAhead |-> 7, daysOfWeek |-> <<1, 2, 3, 4, 5>>,
     windowStart |-> <<9, 0>>, windowEnd |-> <<18, 0>>,
     bufferBefore |-> 10, bufferAfter |-> 10]

AvIdle ==
    /\ picker = PickerDefault
    /\ pickerOpen = FALSE
    /\ busy = {}
    /\ today = 1
    /\ avDays = <<>>
    /\ avMerged = <<>>
    /\ avError = ""

\* a gmail_connections row
ConnRow(u, addr, at, rt, cal, ids) ==
    [user_id |-> u, gmail_address |-> addr, access_token |-> at, refresh_token |-> rt,
     calendar_scopes_granted |-> cal, busy_calendar_ids |-> ids]

\* every user has connected the account whose calendar is synced
NoEvResp == [user |-> NoUser, lo |-> NoTime, hi |-> NoTime, status |-> 0, events |-> <<>>]

\* process.env of a deployment that has only the remote project's values
RemoteOnlyEnv ==
    [NODE_ENV |-> "production",
     URL_LOCAL |-> Null, ANON_KEY_LOCAL |-> Null, SERVICE_ROLE_KEY_LOCAL |-> Null,
     URL |-> "url", ANON_KEY |-> "anon", SERVICE_ROLE_KEY |-> "srk"]

NoEnvRes ==
    [called |-> FALSE, server |-> FALSE, thrown |-> FALSE, url |-> Null, anonKey |-> Null,
     serviceRoleKey |-> Null, isLocal |-> FALSE]

EnvIdle == env = RemoteOnlyEnv /\ envRes = NoEnvRes

\* PRESET_TEMPLATES
PRESET_TEMPLATES ==
    << [name |-> "Introduction", sort_order |-> 0],
       [name |-> "Follow-up after meeting", sort_order |-> 1],
       [name |-> "Thank you", sort_order |-> 2],
       [name |-> "Networking request", sort_order |-> 3],
       [name |-> "Informational interview", sort_order |-> 4],
       [name |-> "Check-in", sort_order |-> 5] >>

NoTplResp ==
    [user |-> NoUser, outcome |-> "none", status |-> 0, templates |-> <<>>, presets |-> <<>>]

TplIdle == templates = {} /\ tplResp = NoTplResp

NoDraftResp == [n |-> 0, user |-> NoUser, id |-> NoId, subject |-> Null, status |-> 0]

DraftIdle == drafts = {} /\ nextDraftId = 1 /\ draftResp = NoDraftResp

NoRcResp == [user |-> NoUser, email |-> Null, outcome |-> "none", contactId |-> NoId]
NoMtResp == [user |-> NoUser, contactId |-> Null, outcome |-> "none", meetings |-> <<>>]
NoAiResp == [user |-> NoUser, prompt |-> Null, contactId |-> NoId, meetingIds |-> {},
             status |-> 0, sent |-> FALSE, contactContext |-> "", meetingContext |-> <<>>]

CrmIdle ==
    /\ contacts = {} /\ contactEmails = {} /\ emailMsgs = {}
    /\ meetings = {} /\ meetingContacts = {}
    /\ rcResp = NoRcResp /\ mtResp = NoMtResp /\ aiResp = NoAiResp

\* the options of openCompose; Null is an option that is not given
NoOpts == [to |-> Null, name |-> Null, subject |-> Null, threadId |-> Null,
           inReplyTo |-> Null, references |-> Null, quotedHtml |-> Null]

\* the useState initial values
Closed == [isOpen |-> FALSE, prefillTo |-> "", prefillName |-> "", prefillSubject |-> "",
           replyThreadId |-> "", replyInReplyTo |-> "", replyReferences |-> "",
           replyQuotedHtml |-> ""]

ComposeIdle == compose = Closed /\ composeLog = [n |-> 0, opts |-> NoOpts]

NoFetch == 0 - 1

UnreadIdle ==
    /\ gmailConn = FALSE /\ unreadCount = 0 /\ timers = <<>> /\ fetches = {}
    /\ fetchLog = [started |-> 0, last |-> NoFetch]

UiIdle == ComposeIdle /\ UnreadIdle

\* no profile is stored
NoProfile == [saved |-> FALSE, workingDays |-> <<>>, from |-> PickerDefault, loads |-> 0]

ExtIdle == DraftIdle /\ CrmIdle /\ UiIdle /\ profile = NoProfile

MoreIdle == EnvIdle /\ TplIdle /\ ExtIdle

NoCbResp ==
    [user |-> NoUser, code |-> Null, state |-> Null, error |-> Null,
     access_token |-> Null, refresh_token |-> Null, status |-> 0, target |-> ""]

OtherIdle ==
    /\ conns = {ConnRow(u, "mail", "at0", "rt0", TRUE, <<>>) : u \in Users}
    /\ evResp = NoEvResp
    /\ cbResp = NoCbResp
    /\ MoreIdle

Init == CalInit /\ PageInit /\ AvIdle /\ OtherIdle

\* --------------------------------------------------------- environment
Tick ==
    /\ now < MaxTime
    /\ now' = now + 1
    /\ UNCHANGED <<remote, issued, cache, nextId, lastSynced, setup, req, pageVars, restOfCal>>

\* ------------------------------------------------- POST /api/calendar/sync
\* the request answers; only what it did is kept of it
Answer(q, status) ==
    [q EXCEPT !.pc = "done", !.resp = status, !.todo = {}, !.snapIds = {}, !.gid = 0, !.body = Null]

Finish(r, status) == Answer(req[r], status)

\* the cooldown is measured from the wrong end
RateLimitedLate(u, t) == lastSynced[u] # Never /\ t - lastSynced[u] > Cooldown

\* the cooldown check on calendar_last_synced_at
RateLimited(u, t) == lastSynced[u] # Never /\ t - lastSynced[u] < Cooldown

\* the request arrives: auth, then the cooldown check
SyncBegin(r, u, fromPage) ==
    LET q == [FreeReq EXCEPT !.kind = "sync", !.user = u, !.page = fromPage]
    IN  IF u = NoUser THEN Answer(q, 401)
        ELSE IF RateLimited(u, now) THEN Answer(q, 429)
        ELSE [q EXCEPT !.pc = "fetch"]

SyncStart(u) ==
    /\ HasFree
    /\ req' = [req EXCEPT ![FreeSlot] = SyncBegin(FreeSlot, u, FALSE)]
    /\ UNCHANGED <<now, remote, issued, cache, nextId, lastSynced, setup, pageVars, restOfCal>>

SyncFetch(r) ==
    /\ req[r].kind = "sync" /\ req[r].pc = "fetch"
    /\ \E ok \in BOOLEAN :
         req' = [req EXCEPT ![r] =
                    IF ok
                    THEN [req[r] EXCEPT !.pc = "upsert", !.fetched = TRUE,
                                        !.todo = FetchWindow(req[r].user),
                                        !.snapIds = {e.gid : e \in FetchWindow(req[r].user)}]
                    ELSE Finish(r, 500)]
    /\ UNCHANGED <<now, remote, issued, cache, nextId, lastSynced, setup, pageVars, restOfCal>>

\* the failed sync puts the user's rows back as they were before it
RollBackPartial(c, u) ==
    {x \in c : x.user_id # u} \cup {x \in cache0 : x.user_id = u}

\* the cache a failing sync leaves: what was written stays (best effort)
KeepPartial(c, u) == c

SyncUpsert(r) ==
    /\ req[r].kind = "sync" /\ req[r].pc = "upsert" /\ req[r].todo # {}
    /\ LET e == MinGid(req[r].todo)
           u == req[r].user
       IN \E ok \in BOOLEAN :
            IF ok
            THEN /\ cache' = Upsert(cache, nextId, u, e)
                 /\ nextId' = IF RowsFor(cache, u, e.gid) = {} THEN nextId + 1 ELSE nextId
                 /\ req' = [req EXCEPT ![r].todo = @ \ {e}, ![r].wrote = TRUE]
            ELSE /\ req' = [req EXCEPT ![r] = Finish(r, 500)]
                 /\ cache' = KeepPartial(cache, u)
                 /\ UNCHANGED nextId
    /\ UNCHANGED <<now, remote, issued, lastSynced, setup, pageVars, restOfCal>>

\* delete-if-absent, when the policy is on
SyncPrune(r) ==
    /\ req[r].kind = "sync" /\ req[r].pc = "upsert" /\ req[r].todo = {}
    /\ deleteAbsent
    /\ cache' = cache \ StaleRows(cache, req[r].user, req[r].snapIds)
    /\ req' = [req EXCEPT ![r].pc = "stamp",
                          ![r].wrote = @ \/ StaleRows(cache, req[r].user, req[r].snapIds) # {}]
    /\ UNCHANGED <<now, remote, issued, nextId, lastSynced, setup, pageVars, restOfCal>>

\* record the sync timestamp and answer
SyncStamp(r) ==
    /\ req[r].kind = "sync"
    /\ \/ req[r].pc = "stamp"
       \/ req[r].pc = "upsert" /\ req[r].todo = {} /\ ~deleteAbsent
    /\ lastSynced' = [lastSynced EXCEPT ![req[r].user] = now]
    /\ req' = [req EXCEPT ![r] = Finish(r, 200)]
    /\ UNCHANGED <<now, remote, issued, cache, nextId, setup, pageVars, restOfCal>>

\* the remote call's error is swallowed and the handler goes on to the cache
AfterRemoteSwallowed(q, ok) ==
    [q EXCEPT !.pc = "cache", !.remoteOk = IF ok THEN "ok" ELSE "fail"]

\* The remote call sits in the handler's try block before the cache write: when it
\* throws, the catch answers 500; when it returns, the handler goes on to the cache.
AfterRemote(q, ok) ==
    IF ok THEN [q EXCEPT !.pc = "cache", !.remoteOk = "ok"]
    ELSE Answer([q EXCEPT !.remoteOk = "fail"], 500)

\* ----------------------------------------- POST /api/calendar/create-event
CreateRemote(u, body) ==
    /\ HasFree
    /\ LET r == FreeSlot
           q == [FreeReq EXCEPT !.kind = "create", !.user = u, !.body = body,
                                !.malformed = MissingField(body)]
       IN  IF u = NoUser
           THEN /\ req' = [req EXCEPT ![r] = Answer(q, 401)]
                /\ UNCHANGED <<remote, issued>>
           ELSE IF ~CreateValid(body)
           THEN /\ req' = [req EXCEPT ![r] = Answer(q, 400)]
                /\ UNCHANGED <<remote, issued>>
           ELSE \E ok \in BOOLEAN :
                  IF ok /\ Gids \ issued # {}
                  THEN /\ remote' = remote \cup
                             {[gid |-> NextGid, owner |-> u, title |-> body.summary,
                               description |-> body.description, start_at |-> body.startTime,
                               end_at |-> body.endTime, is_private |-> FALSE]}
                       /\ issued' = issued \cup {NextGid}
                       /\ req' = [req EXCEPT ![r] = AfterRemote([q EXCEPT !.gid = NextGid], TRUE)]
                  ELSE /\ req' = [req EXCEPT ![r] = AfterRemote(q, FALSE)]
                       /\ UNCHANGED <<remote, issued>>
    /\ UNCHANGED <<now, cache, nextId, lastSynced, setup, pageVars, restOfCal>>

\* an insert error is thrown to the catch block
AfterInsertThrows(q, err) ==
    IF err # "none" THEN [Answer(q, 500) EXCEPT !.cacheErr = err]
    ELSE [Answer(q, 200) EXCEPT !.gid = q.gid, !.wrote = TRUE]

\* create-event after the insert: cacheErr is logged, and the response is a
\* success that carries result.googleEventId either way
AfterInsert(q, err) ==
    [Answer(q, 200) EXCEPT !.gid = q.gid, !.cacheErr = err, !.wrote = (err = "none"),
                           !.meetingId = q.body.meetingId]

\* the meeting is linked whoever owns it
LinkMeetingOfAnyone(ms, u, mid, g) ==
    {IF x.id = mid THEN [x EXCEPT !.calendar_event_id = g] ELSE x : x \in ms}

\* the update of meetings: .eq("id", meetingId).eq("user_id", user.id)
LinkMeeting(ms, u, mid, g) ==
    {IF x.id = mid /\ x.user_id = u THEN [x EXCEPT !.calendar_event_id = g] ELSE x : x \in ms}

\* the insert into calendar_events; its error is logged and the request goes on
\* to link the meeting when the body names one; that result is not looked at
CreateCache(r) ==
    /\ req[r].kind = "create" /\ req[r].pc = "cache"
    /\ \E dbOk \in BOOLEAN :
         IF dbOk /\ ~UniqueViolation(cache, req[r].user, req[r].gid)
         THEN /\ cache' = cache \cup {CreateRow(nextId, req[r].user, req[r].gid, req[r].body)}
              /\ nextId' = nextId + 1
              /\ req' = [req EXCEPT ![r] = AfterInsert(req[r], "none")]
         ELSE /\ req' = [req EXCEPT ![r] =
                            AfterInsert(req[r], IF dbOk THEN "conflict" ELSE "failed")]
              /\ UNCHANGED <<cache, nextId>>
    /\ \E linkOk \in IF TruthyId(req[r].body.meetingId) THEN BOOLEAN ELSE {FALSE} :
         meetings' = IF linkOk
                     THEN LinkMeeting(meetings, req[r].user, req[r].body.meetingId, req[r].gid)
                     ELSE meetings
    /\ UNCHANGED <<now, remote, issued, lastSynced, setup, pageVars, avVars, conns, evResp,
                   cbResp, envVars, tplVars, draftVars, crmButMeetings, uiVars, profile>>

\* -------------------------------- PATCH /api/calendar/events/[googleEventId]
PatchRemote(u, g, body) ==
    /\ HasFree
    /\ LET r == FreeSlot
           q == [FreeReq EXCEPT !.kind = "patch", !.user = u, !.gid = g, !.body = body]
       IN  IF u = NoUser
           THEN /\ req' = [req EXCEPT ![r] = Answer(q, 401)]
                /\ UNCHANGED remote
           ELSE \E ok \in BOOLEAN :
                  IF ok /\ RemoteHas(u, g)
                  THEN /\ remote' = {IF e.owner = u /\ e.gid = g THEN PatchEvent(e, body) ELSE e
                                        : e \in remote}
                       /\ req' = [req EXCEPT ![r] = AfterRemote(q, TRUE)]
                  ELSE /\ req' = [req EXCEPT ![r] = AfterRemote(q, FALSE)]
                       /\ UNCHANGED remote
    /\ UNCHANGED <<now, issued, cache, nextId, lastSynced, setup, pageVars, restOfCal>>

\* the update of the cache row; its result is not looked at
PatchCache(r) ==
    /\ req[r].kind = "patch" /\ req[r].pc = "cache"
    /\ \E dbOk \in BOOLEAN :
         IF dbOk
         THEN /\ cache' = PatchCacheRows(cache, req[r].user, req[r].gid, req[r].body)
              /\ req' = [req EXCEPT ![r] = [Finish(r, 200) EXCEPT !.wrote = TRUE]]
         ELSE /\ req' = [req EXCEPT ![r] = [Finish(r, 200) EXCEPT !.cacheErr = "failed"]]
              /\ UNCHANGED cache
    /\ UNCHANGED <<now, remote, issued, nextId, lastSynced, setup, pageVars, restOfCal>>

\* ------------------------------- DELETE /api/calendar/events/[googleEventId]
DeleteRemote(u, g) ==
    /\ HasFree
    /\ LET r == FreeSlot
           q == [FreeReq EXCEPT !.kind = "delete", !.user = u, !.gid = g]
       IN  IF u = NoUser
           THEN /\ req' = [req EXCEPT ![r] = Answer(q, 401)]
                /\ UNCHANGED remote
           ELSE \E ok \in BOOLEAN :
                  IF ok /\ RemoteHas(u, g)
                  THEN /\ remote' = {e \in remote : ~(e.owner = u /\ e.gid = g)}
                       /\ req' = [req EXCEPT ![r] = AfterRemote(q, TRUE)]
                  ELSE /\ req' = [req EXCEPT ![r] = AfterRemote(q, FALSE)]
                       /\ UNCHANGED remote
    /\ UNCHANGED <<now, issued, cache, nextId, lastSynced, setup, pageVars, restOfCal>>

DeleteCache(r) ==
    /\ req[r].kind = "delete" /\ req[r].pc = "cache"
    /\ \E dbOk \in BOOLEAN :
         IF dbOk
         THEN /\ cache' = DeleteCacheRows(cache, req[r].user, req[r].gid)
              /\ req' = [req EXCEPT ![r] = [Finish(r, 200) EXCEPT !.wrote = TRUE]]
         ELSE /\ req' = [req EXCEPT ![r] = [Finish(r, 200) EXCEPT !.cacheErr = "failed"]]
              /\ UNCHANGED cache
    /\ UNCHANGED <<now, remote, issued, nextId, lastSynced, setup, pageVars, restOfCal>>

\* ------------------------------------------------------ the calendar page
SyncedRecently == "Synced recently, try again in a moment"
SyncFailed == "Failed to sync calendar"

RECURSIVE SeqsOf(_)
SeqsOf(S) == IF S = {} THEN {<<>>}
             ELSE UNION {{<<x>> \o s : s \in SeqsOf(S \ {x})} : x \in S}

\* GET /api/calendar/events without bounds: the caller's rows by ascending start_at
GetEvents(c, u) ==
    {s \in SeqsOf({r \in c : r.user_id = u}) :
        \A i \in 1..(Len(s) - 1) : s[i].start_at <= s[i + 1].start_at}

\* the list view's card of one event
RenderList(e) ==
    IF e.is_private THEN [heading |-> "Private event", description |-> Null]
    ELSE [heading |-> IF Truthy(e.title) THEN e.title ELSE "Untitled",
          description |-> IF Truthy(e.description) THEN e.description ELSE Null]

\* the week grid's block of one event
RenderWeek(e) ==
    IF e.is_private THEN "Busy"
    ELSE IF Truthy(e.title) THEN e.title ELSE "Untitled"

\* handleSync asks for a sync
PageSyncClick ==
    /\ pagePc = "idle"
    /\ HasFree
    /\ req' = [req EXCEPT ![FreeSlot] = SyncBegin(FreeSlot, PageUser, TRUE)]
    /\ pagePc' = "syncing"
    /\ pageReq' = FreeSlot
    /\ UNCHANGED <<now, remote, issued, cache, nextId, lastSynced, setup,
                   pageError, pageEvents, restOfCal>>

\* a 429 is taken for a success and the list is loaded again
HandleSyncNo429(status) ==
    IF status # 200 /\ status # 429 THEN [pc |-> "idle", error |-> SyncFailed]
    ELSE [pc |-> "syncLoading", error |-> pageError]

\* handleSync after the response: the page's next step and its error banner
HandleSync(status) ==
    IF status = 429 THEN [pc |-> "idle", error |-> SyncedRecently]
    ELSE IF status # 200 THEN [pc |-> "idle", error |-> SyncFailed]
    ELSE [pc |-> "syncLoading", error |-> pageError]

PageSyncResponse ==
    /\ pagePc = "syncing"
    /\ Done(pageReq)
    /\ pagePc' = HandleSync(req[pageReq].resp).pc
    /\ pageError' = HandleSync(req[pageReq].resp).error
    /\ UNCHANGED <<calVars, pageReq, pageEvents, restOfCal>>

\* loadEvents: on mount, or from handleSync after a successful sync
PageLoadEvents ==
    /\ pagePc \in {"loading", "syncLoading"}
    /\ \E ok \in BOOLEAN :
         IF ok THEN \E s \in GetEvents(cache, PageUser) : pageEvents' = s
         ELSE pageEvents' = pageEvents
    /\ pageError' = IF pagePc = "syncLoading" THEN "" ELSE pageError
    /\ pagePc' = "idle"
    /\ UNCHANGED <<calVars, pageReq, restOfCal>>

\* the page is opened again
PageMount ==
    /\ pagePc = "idle"
    /\ pagePc' = "loading"
    /\ pageError' = ""
    /\ pageEvents' = <<>>
    /\ pageReq' = 0
    /\ UNCHANGED <<calVars, restOfCal>>

\* the server's handlers
ServerNext ==
    \/ Tick
    \/ \E u \in Users \cup {NoUser} : SyncStart(u)
    \/ \E r \in Reqs : SyncFetch(r)
    \/ \E r \in Reqs : SyncUpsert(r)
    \/ \E r \in Reqs : SyncPrune(r)
    \/ \E r \in Reqs : SyncStamp(r)
    \/ \E u \in Users \cup {NoUser}, b \in CreateBodies : CreateRemote(u, b)
    \/ \E r \in Reqs : CreateCache(r)
    \/ \E u \in Users \cup {NoUser}, g \in Gids, b \in PatchBodies : PatchRemote(u, g, b)
    \/ \E r \in Reqs : PatchCache(r)
    \/ \E u \in Users \cup {NoUser}, g \in Gids : DeleteRemote(u, g)
    \/ \E r \in Reqs : DeleteCache(r)

Next == ServerNext

\* The server alone: the page stays as it was opened.
Spec == Init /\ [][Next]_vars

\* The calendar page with the sync and PATCH traffic it shows.
PageNext ==
    \/ Tick
    \/ \E u \in Users : SyncStart(u)
    \/ \E r \in Reqs : SyncFetch(r)
    \/ \E r \in Reqs : SyncUpsert(r)
    \/ \E r \in Reqs : SyncPrune(r)
    \/ \E r \in Reqs : SyncStamp(r)
    \/ \E u \in Users, g \in Gids, b \in PatchBodies : PatchRemote(u, g, b)
    \/ \E r \in Reqs : PatchCache(r)
    \/ PageSyncClick
    \/ PageSyncResponse
    \/ PageLoadEvents
    \/ PageMount

SpecPage == Init /\ [][PageNext]_vars

\* -------------------------------------------- POST /api/calendar/busy-calendars
\* The request bodies: busyCalendarIds as an array, as a string, and absent.
BusyBodies ==
    { [isArray |-> TRUE, ids |-> <<"c1">>],
      [isArray |-> TRUE, ids |-> <<>>],
      [isArray |-> FALSE, ids |-> <<>>] }

\* the update of the caller's gmail_connections row
SetBusyIds(c, u, ids) ==
    {IF r.user_id = u THEN [r EXCEPT !.busy_calendar_ids = ids] ELSE r : r \in c}

\* the whole handler; the result of the update is not looked at
BusyCalendars(u, body) ==
    /\ HasFree
    /\ LET r == FreeSlot
           q == [FreeReq EXCEPT !.kind = "busy", !.user = u, !.malformed = ~body.isArray]
       IN  IF u = NoUser
           THEN /\ req' = [req EXCEPT ![r] = Answer(q, 401)]
                /\ UNCHANGED conns
           ELSE IF ~body.isArray
           THEN /\ req' = [req EXCEPT ![r] = Answer(q, 400)]
                /\ UNCHANGED conns
           ELSE \E dbOk \in BOOLEAN :
                  IF dbOk
                  THEN /\ conns' = SetBusyIds(conns, u, body.ids)
                       /\ req' = [req EXCEPT ![r] = [Answer(q, 200) EXCEPT !.wrote = TRUE]]
                  ELSE /\ req' = [req EXCEPT ![r] = [Answer(q, 200) EXCEPT !.cacheErr = "failed"]]
                       /\ UNCHANGED conns
    /\ UNCHANGED <<now, remote, issued, cache, nextId, lastSynced, setup, pageVars, avVars,
                   evResp, cbResp, moreVars>>

\* The four calendar routes that write: create-event, PATCH, DELETE, busy-calendars.
RoutesNext ==
    \/ \E u \in Users \cup {NoUser}, b \in CreateBodies : CreateRemote(u, b)
    \/ \E r \in Reqs : CreateCache(r)
    \/ \E u \in Users \cup {NoUser}, g \in Gids, b \in PatchBodies : PatchRemote(u, g, b)
    \/ \E r \in Reqs : PatchCache(r)
    \/ \E u \in Users \cup {NoUser}, g \in Gids : DeleteRemote(u, g)
    \/ \E r \in Reqs : DeleteCache(r)
    \/ \E u \in Users \cup {NoUser}, b \in BusyBodies : BusyCalendars(u, b)

SpecRoutes == Init /\ [][RoutesNext]_vars

\* ------------------------------------------------- GET /api/calendar/events
MaxRows == 4         \* rows in the cache the route reads

\* both bounds exclude the row that starts on them
EventsInRangeStrict(c, u, lo, hi) ==
    {r \in c : /\ r.user_id = u
               /\ (lo = NoTime \/ r.start_at > lo)
               /\ (hi = NoTime \/ r.start_at < hi)}

\* the query: the caller's rows, start_at >= start and start_at <= end for each
\* bound the request carries
EventsInRange(c, u, lo, hi) ==
    {r \in c : /\ r.user_id = u
               /\ (lo = NoTime \/ r.start_at >= lo)
               /\ (hi = NoTime \/ r.start_at <= hi)}

\* the rows in the order the database may return them: ascending start_at
OrderedByStart(S) ==
    {sq \in SeqsOf(S) : \A i \in 1..(Len(sq) - 1) : sq[i].start_at <= sq[i + 1].start_at}

\* the whole handler
EventsGet(u, lo, hi) ==
    /\ IF u = NoUser
       THEN evResp' = [user |-> u, lo |-> lo, hi |-> hi, status |-> 401, events |-> <<>>]
       ELSE \E ok \in BOOLEAN :
              IF ok
              THEN \E sq \in OrderedByStart(EventsInRange(cache, u, lo, hi)) :
                     evResp' = [user |-> u, lo |-> lo, hi |-> hi, status |-> 200, events |-> sq]
              ELSE evResp' = [user |-> u, lo |-> lo, hi |-> hi, status |-> 500, events |-> <<>>]
    /\ UNCHANGED <<calVars, pageVars, avVars, conns, cbResp, moreVars>>

\* rows the cache may hold: two of A that start together, one before and one
\* after them, and one of B
EventRows ==
    { MkRow(1, "A", 1, "t1", "d1", 0, 1, FALSE),
      MkRow(2, "A", 2, "t2", Null, 1, 2, FALSE),
      MkRow(3, "A", 3, Null, Null, 1, 3, TRUE),
      MkRow(4, "A", 4, "t4", Null, 2, 3, FALSE),
      MkRow(5, "B", 1, "t5", Null, 1, 2, FALSE) }

EventsInit ==
    /\ now = 0
    /\ remote = {}
    /\ issued = Gids
    /\ cache \in {c \in SUBSET EventRows : Cardinality(c) <= MaxRows}
    /\ nextId = 1 + Cardinality(EventRows)
    /\ lastSynced = [u \in Users |-> 0]
    /\ deleteAbsent = FALSE
    /\ cache0 = cache
    /\ req = [r \in Reqs |-> FreeReq]
    /\ PageInit
    /\ AvIdle
    /\ OtherIdle

EventsNext ==
    \E u \in Users \cup {NoUser}, lo \in {NoTime, 0, 1}, hi \in {NoTime, 1, 2} : EventsGet(u, lo, hi)

\* Reads of a cache that earlier syncs filled.
SpecEvents == EventsInit /\ [][EventsNext]_vars

\* --------------------------------------------------- GET /api/gmail/callback
SettingsError == "/settings?gmail=error"
SettingsConnected == "/settings?gmail=connected"

\* what getToken may give: it throws, or returns tokens of which one may be absent
TokenResults ==
    { [thrown |-> TRUE, access_token |-> Null, refresh_token |-> Null, calendar |-> FALSE],
      [thrown |-> FALSE, access_token |-> "at1", refresh_token |-> "rt1", calendar |-> TRUE],
      [thrown |-> FALSE, access_token |-> "at1", refresh_token |-> "rt1", calendar |-> FALSE],
      [thrown |-> FALSE, access_token |-> "at1", refresh_token |-> Null, calendar |-> TRUE],
      [thrown |-> FALSE, access_token |-> Null, refresh_token |-> "rt1", calendar |-> TRUE] }

\* upsert with onConflict user_id: the user's row takes the new values of the
\* columns sent and keeps the others
UpsertConn(c, u, addr, tok) ==
    IF \E r \in c : r.user_id = u
    THEN {IF r.user_id = u
          THEN ConnRow(u, addr, tok.access_token, tok.refresh_token, tok.calendar,
                       r.busy_calendar_ids)
          ELSE r : r \in c}
    ELSE c \cup {ConnRow(u, addr, tok.access_token, tok.refresh_token, tok.calendar, <<>>)}

\* the state parameter is not compared with the user
CallbackAnswerAnyState(u, code, state, err, tok, profileOk, dbOk) ==
    IF err # Null THEN [status |-> 302, target |-> SettingsError, store |-> FALSE]
    ELSE IF ~Truthy(code) \/ ~Truthy(state) THEN [status |-> 400, target |-> "", store |-> FALSE]
    ELSE IF u = NoUser THEN [status |-> 401, target |-> "", store |-> FALSE]
    ELSE IF tok.thrown \/ tok.access_token = Null \/ tok.refresh_token = Null
              \/ ~profileOk \/ ~dbOk
    THEN [status |-> 302, target |-> SettingsError, store |-> FALSE]
    ELSE [status |-> 302, target |-> SettingsConnected, store |-> TRUE]

\* the handler's answer, and whether its upsert stored the row
CallbackAnswer(u, code, state, err, tok, profileOk, dbOk) ==
    IF err # Null THEN [status |-> 302, target |-> SettingsError, store |-> FALSE]
    ELSE IF ~Truthy(code) \/ ~Truthy(state) THEN [status |-> 400, target |-> "", store |-> FALSE]
    ELSE IF u = NoUser THEN [status |-> 401, target |-> "", store |-> FALSE]
    ELSE IF state # u THEN [status |-> 403, target |-> "", store |-> FALSE]
    ELSE IF tok.thrown \/ tok.access_token = Null \/ tok.refresh_token = Null
              \/ ~profileOk \/ ~dbOk
    THEN [status |-> 302, target |-> SettingsError, store |-> FALSE]
    ELSE [status |-> 302, target |-> SettingsConnected, store |-> TRUE]

\* the whole handler
Callback(u, code, state, err, tok, profileOk, dbOk) ==
    LET a == CallbackAnswer(u, code, state, err, tok, profileOk, dbOk)
    IN  /\ cbResp' = [user |-> u, code |-> code, state |-> state, error |-> err,
                      access_token |-> tok.access_token, refresh_token |-> tok.refresh_token,
                      status |-> a.status, target |-> a.target]
        /\ conns' = IF a.store THEN UpsertConn(conns, u, "mail1", tok) ELSE conns
        /\ UNCHANGED <<calVars, pageVars, avVars, evResp, moreVars>>

CallbackInit ==
    /\ CalInit /\ remote = {} /\ ~deleteAbsent
    /\ PageInit
    /\ AvIdle
    /\ conns \in {{}, {ConnRow("A", "mail0", "at0", "rt0", FALSE, <<"c1">>)}}
    /\ evResp = NoEvResp
    /\ cbResp = NoCbResp
    /\ MoreIdle

CallbackNext ==
    \E u \in Users \cup {NoUser}, code \in {Null, "code"}, state \in {Null} \cup Users,
       err \in {Null, "access_denied"}, tok \in TokenResults, profileOk, dbOk \in BOOLEAN :
        Callback(u, code, state, err, tok, profileOk, dbOk)

SpecCallback == CallbackInit /\ [][CallbackNext]_vars

\* ------------------------------------------------------------ getSupabaseEnv
\* the dev-only variant: the local values whatever NODE_ENV is
GetSupabaseEnvLocalOnly(e, server) ==
    IF ~Truthy(e.URL_LOCAL) \/ ~Truthy(e.ANON_KEY_LOCAL)
         \/ (server /\ ~Truthy(e.SERVICE_ROLE_KEY_LOCAL))
    THEN [NoEnvRes EXCEPT !.called = TRUE, !.server = server, !.thrown = TRUE]
    ELSE [called |-> TRUE, server |-> server, thrown |-> FALSE, url |-> e.URL_LOCAL,
          anonKey |-> e.ANON_KEY_LOCAL, serviceRoleKey |-> e.SERVICE_ROLE_KEY_LOCAL,
          isLocal |-> TRUE]

isLocalPreferred(e) ==
    e.NODE_ENV = "development" /\ Truthy(e.URL_LOCAL) /\ Truthy(e.ANON_KEY_LOCAL)

GetSupabaseEnv(e, server) ==
    LET useLocal == isLocalPreferred(e)
        url == IF useLocal THEN e.URL_LOCAL ELSE e.URL
        anonKey == IF useLocal THEN e.ANON_KEY_LOCAL ELSE e.ANON_KEY
        serviceRoleKey == IF useLocal THEN e.SERVICE_ROLE_KEY_LOCAL ELSE e.SERVICE_ROLE_KEY
    IN  IF ~Truthy(url) \/ ~Truthy(anonKey)
        THEN [NoEnvRes EXCEPT !.called = TRUE, !.server = server, !.thrown = TRUE]
        ELSE IF server /\ ~Truthy(serviceRoleKey)
        THEN [NoEnvRes EXCEPT !.called = TRUE, !.server = server, !.thrown = TRUE]
        ELSE [called |-> TRUE, server |-> server, thrown |-> FALSE, url |-> url,
              anonKey |-> anonKey, serviceRoleKey |-> serviceRoleKey, isLocal |-> useLocal]

\* the environments: each variable unset, empty or set, the local and the remote
\* values distinct
Envs ==
    [NODE_ENV : {"development", "production"},
     URL_LOCAL : {Null, "", "lurl"}, ANON_KEY_LOCAL : {Null, "lanon"},
     SERVICE_ROLE_KEY_LOCAL : {Null, "lsrk"},
     URL : {Null, "url"}, ANON_KEY : {Null, "", "anon"}, SERVICE_ROLE_KEY : {Null, "srk"}]

CallGetSupabaseEnv(server) ==
    /\ envRes' = GetSupabaseEnv(env, server)
    /\ UNCHANGED <<calVars, pageVars, avVars, conns, evResp, cbResp, env, tplVars, extVars>>

EnvInit ==
    /\ CalInit /\ remote = {} /\ ~deleteAbsent
    /\ PageInit
    /\ AvIdle
    /\ conns = {} /\ evResp = NoEvResp /\ cbResp = NoCbResp
    /\ env \in Envs
    /\ envRes = NoEnvRes
    /\ TplIdle
    /\ ExtIdle

EnvNext == \E server \in BOOLEAN : CallGetSupabaseEnv(server)

SpecEnv == EnvInit /\ [][EnvNext]_vars

\* -------------------------------------------------- GET /api/gmail/templates
MaxTemplates == 3    \* rows in email_templates

TplRow(id, u, name, order) == [id |-> id, user_id |-> u, name |-> name, sort_order |-> order]

\* the rows in the order the database may return them: ascending sort_order
OrderedBySortOrder(S) ==
    {sq \in SeqsOf(S) : \A i \in 1..(Len(sq) - 1) : sq[i].sort_order <= sq[i + 1].sort_order}

\* the presets are sent only to a caller who has no template of their own
TemplatesAnswerPresetsIfNone(rows) ==
    [status |-> 200, templates |-> rows,
     presets |-> IF rows = <<>> THEN PRESET_TEMPLATES ELSE <<>>]

\* the response body: always with the presets
TemplatesAnswer(rows) ==
    [status |-> 200, templates |-> rows, presets |-> PRESET_TEMPLATES]

\* the whole handler; outcome is what the storage call does: it returns the rows,
\* returns an error, or the client cannot be made and the call throws
TemplatesGet(u, outcome) ==
    /\ \E rows \in IF u # NoUser /\ outcome = "ok"
                    THEN OrderedBySortOrder({t \in templates : t.user_id = u})
                    ELSE {<<>>} :
         tplResp' = [user |-> u, outcome |-> outcome,
                     status |-> TemplatesAnswer(rows).status,
                     templates |-> TemplatesAnswer(rows).templates,
                     presets |-> TemplatesAnswer(rows).presets]
    /\ UNCHANGED <<calVars, pageVars, avVars, conns, evResp, cbResp, envVars, templates, extVars>>

\* rows the table may hold: three of A, two with the same sort_order, and one of B
TemplateRows ==
    { TplRow(1, "A", "a0", 0), TplRow(2, "A", "a2", 2), TplRow(3, "A", "a2b", 2),
      TplRow(4, "B", "b1", 1) }

TemplatesInit ==
    /\ CalInit /\ remote = {} /\ ~deleteAbsent
    /\ PageInit
    /\ AvIdle
    /\ conns = {} /\ evResp = NoEvResp /\ cbResp = NoCbResp
    /\ EnvIdle
    /\ templates \in {T \in SUBSET TemplateRows : Cardinality(T) <= MaxTemplates}
    /\ tplResp = NoTplResp
    /\ ExtIdle

TemplatesNext ==
    \E u \in Users \cup {NoUser}, outcome \in {"ok", "error", "throw"} : TemplatesGet(u, outcome)

SpecTemplates == TemplatesInit /\ [][TemplatesNext]_vars

\* ----------------------------------------------------- POST /api/gmail/drafts
MaxDraftOps == 2     \* requests to the drafts route

\* every other component at rest, with an empty calendar
BaseIdle ==
    /\ CalInit /\ remote = {} /\ ~deleteAbsent
    /\ PageInit
    /\ AvIdle
    /\ conns = {} /\ evResp = NoEvResp /\ cbResp = NoCbResp
    /\ EnvIdle
    /\ TplIdle

\* draftData, of which the subject stands for the nine content columns
DraftData(u, subject) ==
    [user_id |-> u, subject |-> IF Truthy(subject) THEN subject ELSE Null]

DraftRow(id, u, subject, at) ==
    [id |-> id, user_id |-> DraftData(u, subject).user_id,
     subject |-> DraftData(u, subject).subject, updated_at |-> at]

\* .eq("id", body.id).eq("user_id", user.id)
DraftsFor(d, u, id) == {x \in d : x.id = id /\ x.user_id = u}

\* the update statement: the matching rows get the new content and updated_at
UpdateDraft(d, u, id, subject, at) ==
    (d \ DraftsFor(d, u, id))
        \cup {DraftRow(x.id, u, subject, at) : x \in DraftsFor(d, u, id)}

\* the whole handler; dbOk is whether the storage call succeeds. An update that
\* matches no row makes .single() return an error, which is thrown.
DraftPost(u, id, subject, dbOk) ==
    /\ draftResp.n < MaxDraftOps
    /\ LET n == draftResp.n + 1
           ans(status) == [n |-> n, user |-> u, id |-> id, subject |-> subject,
                           status |-> status]
       IN  IF u = NoUser
           THEN draftResp' = ans(401) /\ UNCHANGED <<drafts, nextDraftId>>
           ELSE IF TruthyId(id)
           THEN IF dbOk /\ DraftsFor(drafts, u, id) # {}
                THEN /\ drafts' = UpdateDraft(drafts, u, id, subject, n)
                     /\ draftResp' = ans(200)
                     /\ UNCHANGED nextDraftId
                ELSE draftResp' = ans(500) /\ UNCHANGED <<drafts, nextDraftId>>
           ELSE IF dbOk
                THEN /\ drafts' = drafts \cup {DraftRow(nextDraftId, u, subject, 0)}
                     /\ nextDraftId' = nextDraftId + 1
                     /\ draftResp' = ans(200)
                ELSE draftResp' = ans(500) /\ UNCHANGED <<drafts, nextDraftId>>
    /\ UNCHANGED <<baseVars, crmVars, uiVars, profile>>

\* the table before the requests: empty, or one draft of each user
DraftsInit ==
    /\ BaseIdle
    /\ \/ drafts = {} /\ nextDraftId = 1
       \/ /\ drafts = {DraftRow(1, "A", "a", 0), DraftRow(2, "B", "b", 0)}
          /\ nextDraftId = 3
    /\ draftResp = NoDraftResp
    /\ CrmIdle /\ UiIdle /\ profile = NoProfile

DraftsNext ==
    \E u \in Users \cup {NoUser}, id \in {NoId, 0, 1, 2, 3}, subject \in {"", "s"},
       dbOk \in BOOLEAN : DraftPost(u, id, subject, dbOk)

SpecDrafts == DraftsInit /\ [][DraftsNext]_vars

\* ------------------------------------ GET /api/gmail/ai-write/resolve-contact
Contact(id, u, name) == [id |-> id, user_id |-> u, name |-> name]

\* email.toLowerCase(), over the addresses of the model
ToLowerCase(s) == IF s = "X" THEN "x" ELSE s

\* contacts!inner(user_id): the owner of the contact a contact_emails row names
OwnerOf(ce) == {c.user_id : c \in {k \in contacts : k.id = ce.contact_id}}

\* .limit(1).single(): the data is one of the matching rows, whichever the
\* database puts first, or null (the empty set here) when there is none or the
\* query failed
FirstOf(S, ok) == IF ok /\ S # {} THEN {{x} : x \in S} ELSE {{}}

\* the whole handler; outcome is what the storage calls do
ResolveContact(u, email, outcome) ==
    /\ LET ans(id) == [user |-> u, email |-> email, outcome |-> outcome, contactId |-> id]
           byEmail == {ce \in contactEmails : ce.email = ToLowerCase(email)}
           byMsg == {m \in emailMsgs : /\ m.user_id = u
                                        /\ m.address = email
                                        /\ m.matched_contact_id # NoId}
       IN  IF ~Truthy(email) \/ u = NoUser \/ outcome = "throw"
           THEN rcResp' = ans(NoId)
           ELSE \E ce \in FirstOf(byEmail, outcome = "ok"),
                   em \in FirstOf(byMsg, outcome = "ok") :
                   rcResp' = ans(IF \E x \in ce : OwnerOf(x) = {u}
                                 THEN (CHOOSE x \in ce : TRUE).contact_id
                                 ELSE IF em # {}
                                 THEN (CHOOSE x \in em : TRUE).matched_contact_id
                                 ELSE NoId)
    /\ UNCHANGED <<baseVars, draftVars, crmTables, mtResp, aiResp, uiVars, profile>>

\* two contacts of A and one of B; A's first and B's may share the address x
ResolveContacts == {Contact(1, "A", "ann"), Contact(2, "B", "bob"), Contact(3, "A", "cy")}

ResolveInit ==
    /\ BaseIdle /\ DraftIdle
    /\ contacts = ResolveContacts
    /\ contactEmails \in SUBSET {[contact_id |-> 1, email |-> "x"],
                                  [contact_id |-> 2, email |-> "x"],
                                  [contact_id |-> 3, email |-> "y"]}
    /\ emailMsgs \in SUBSET {[user_id |-> "A", address |-> "x", matched_contact_id |-> 1],
                              [user_id |-> "B", address |-> "x", matched_contact_id |-> 2],
                              [user_id |-> "A", address |-> "y", matched_contact_id |-> NoId]}
    /\ meetings = {} /\ meetingContacts = {}
    /\ rcResp = NoRcResp /\ mtResp = NoMtResp /\ aiResp = NoAiResp
    /\ UiIdle /\ profile = NoProfile

ResolveNext ==
    \E u \in Users \cup {NoUser}, email \in {"", "x", "X", "y"},
       outcome \in {"ok", "error", "throw"} : ResolveContact(u, email, outcome)

SpecResolve == ResolveInit /\ [][ResolveNext]_vars

\* --------------------------------------------- GET /api/gmail/ai-write/meetings
MeetingsLimit == 20
NaN == 0 - 2

Meeting(id, u, date, notes, transcript) ==
    [id |-> id, user_id |-> u, meeting_date |-> date, notes |-> notes,
     transcript |-> transcript, calendar_event_id |-> 0]

Link(mid, cid) == [meeting_id |-> mid, contact_id |-> cid]

\* parseInt over the query strings of the model: leading digits, else NaN
ParseInt(s) ==
    CASE s = "1" -> 1
      [] s = "1x" -> 1
      [] s = "2" -> 2
      [] OTHER -> NaN

\* .order("meeting_date", {ascending: false}): every order the database may give,
\* rows of the same date in any order
OrderedByDateDesc(S) ==
    LET RECURSIVE Ord(_)
        Ord(T) ==
            IF T = {} THEN {<<>>}
            ELSE LET top == {x \in T : \A y \in T : y.meeting_date <= x.meeting_date}
                 IN  UNION {{<<x>> \o sq : sq \in Ord(T \ {x})} : x \in top}
    IN  Ord(S)

\* .limit(n)
Limit(sq, n) == IF Len(sq) <= n THEN sq ELSE SubSeq(sq, 1, n)

\* the meetings of any user whose id is in ids
MeetingsOfAnyone(ms, u, ids) == {x \in ms : x.id \in ids}

\* .eq("user_id", user.id).in("id", meetingIds)
MeetingsOf(ms, u, ids) == {x \in ms : x.user_id = u /\ x.id \in ids}

\* (m) => m.notes || m.transcript
Useful(x) == Truthy(x.notes) \/ Truthy(x.transcript)

\* the whole handler; outcome is what the storage calls do: both succeed, the
\* links query fails, the meetings query fails, or the client cannot be made
MeetingsGet(u, contactId, outcome) ==
    /\ LET ans(sq) == [user |-> u, contactId |-> contactId, outcome |-> outcome,
                       meetings |-> sq]
           links == IF outcome = "linksError" \/ ParseInt(contactId) = NaN THEN {}
                    ELSE {l \in meetingContacts : l.contact_id = ParseInt(contactId)}
           meetingIds == {l.meeting_id : l \in links}
       IN  IF ~Truthy(contactId) \/ u = NoUser \/ outcome = "throw" \/ links = {}
           THEN mtResp' = ans(<<>>)
           ELSE IF outcome = "meetingsError"
           THEN mtResp' = ans(<<>>)
           ELSE \E sq \in OrderedByDateDesc(MeetingsOf(meetings, u, meetingIds)) :
                   mtResp' = ans(SelectSeq(Limit(sq, MeetingsLimit), Useful))
    /\ UNCHANGED <<baseVars, draftVars, crmTables, rcResp, aiResp, uiVars, profile>>

\* a small table: two meetings of A on the same date, one of A without content,
\* one of B
SmallMeetings ==
    { Meeting(1, "A", 5, "n1", Null), Meeting(2, "A", 5, Null, "t2"),
      Meeting(3, "A", 7, Null, ""), Meeting(4, "B", 6, "n4", Null) }

\* a large table: more meetings of A with content than the limit, one newer
\* meeting of A without content, and a meeting of B
ManyMeetings ==
    {Meeting(100 + i, "A", i, "n", Null) : i \in 1..(MeetingsLimit + 2)}
        \cup {Meeting(200, "A", MeetingsLimit + 3, Null, Null),
              Meeting(201, "B", MeetingsLimit + 4, "n", Null)}

MeetingsInit ==
    /\ BaseIdle /\ DraftIdle
    /\ contacts = ResolveContacts
    /\ contactEmails = {} /\ emailMsgs = {}
    /\ \/ /\ meetings = SmallMeetings
          /\ meetingContacts \in SUBSET {Link(1, 1), Link(2, 1), Link(3, 1), Link(4, 1),
                                          Link(2, 2)}
       \/ /\ meetings = ManyMeetings
          /\ meetingContacts = {Link(x.id, 1) : x \in ManyMeetings}
    /\ rcResp = NoRcResp /\ mtResp = NoMtResp /\ aiResp = NoAiResp
    /\ UiIdle /\ profile = NoProfile

MeetingsNext ==
    \E u \in Users \cup {NoUser}, contactId \in {"", "1", "2", "1x", "x"},
       outcome \in {"ok", "linksError", "meetingsError", "throw"} :
         MeetingsGet(u, contactId, outcome)

SpecMeetings == MeetingsInit /\ [][MeetingsNext]_vars

\* ----------------------------------------------------- POST /api/gmail/ai-write
\* contactContext: the contact's details, of which the name stands for all; the
\* contact is read by id alone
ContactContext(cs, contactId) ==
    IF TruthyId(contactId) /\ \E c \in cs : c.id = contactId
    THEN (CHOOSE c \in cs : c.id = contactId).name
    ELSE ""

\* one part of meetingContext
MeetingPart(x) == [meeting_date |-> x.meeting_date, notes |-> x.notes,
                   transcript |-> x.transcript]

MeetingParts(sq) == [i \in 1..Len(sq) |-> MeetingPart(sq[i])]

\* the whole handler up to the first call of the AI; aiOk is whether that call
\* gives a text. What is sent is the prompt with the two contexts.
AiWrite(u, prompt, contactId, meetingIds, aiOk) ==
    /\ LET ans(status, sent, cc, mc) ==
               [user |-> u, prompt |-> prompt, contactId |-> contactId,
                meetingIds |-> meetingIds, status |-> status, sent |-> sent,
                contactContext |-> cc, meetingContext |-> mc]
       IN  IF u = NoUser THEN aiResp' = ans(401, FALSE, "", <<>>)
           ELSE IF ~Truthy(prompt) THEN aiResp' = ans(400, FALSE, "", <<>>)
           ELSE \E sq \in OrderedByDateDesc(MeetingsOf(meetings, u, meetingIds)) :
                   aiResp' = ans(IF aiOk THEN 200 ELSE 500, TRUE,
                                 ContactContext(contacts, contactId), MeetingParts(sq))
    /\ UNCHANGED <<baseVars, draftVars, crmTables, rcResp, mtResp, uiVars, profile>>

AiInit ==
    /\ BaseIdle /\ DraftIdle
    /\ contacts \in {ResolveContacts, {Contact(1, "A", "ann")}}
    /\ contactEmails = {} /\ emailMsgs = {}
    /\ meetings = SmallMeetings
    /\ meetingContacts = {}
    /\ rcResp = NoRcResp /\ mtResp = NoMtResp /\ aiResp = NoAiResp
    /\ UiIdle /\ profile = NoProfile

AiNext ==
    \E u \in Users \cup {NoUser}, prompt \in {"", "p"}, contactId \in {NoId, 0, 1, 2},
       meetingIds \in SUBSET {1, 2, 4}, aiOk \in BOOLEAN :
         AiWrite(u, prompt, contactId, meetingIds, aiOk)

SpecAi == AiInit /\ [][AiNext]_vars

\* ------------------------------ the writing routes over rows of both users
\* create-event bodies that name a meeting: 1 is A's, 4 is B's
LinkBodies ==
    { [summary |-> "t1", description |-> "d1", startTime |-> 0, endTime |-> 1,
       meetingId |-> mid] : mid \in {1, 4} }

\* PATCH bodies with empty strings
EmptyStringBodies ==
    { [summary |-> "", description |-> Null, startTime |-> NoTime, endTime |-> NoTime],
      [summary |-> Null, description |-> "", startTime |-> NoTime, endTime |-> NoTime] }

\* an event of A that B was invited to, so that both caches hold a row with its id
SharedEvent ==
    [gid |-> 1, owner |-> "A", title |-> "s1", description |-> "sd",
     start_at |-> 0, end_at |-> 1, is_private |-> FALSE]

FrameInit ==
    /\ now = 0
    /\ remote = {SharedEvent}
    /\ issued = {1}
    /\ cache = {SyncRow(1, "A", SharedEvent), SyncRow(2, "B", SharedEvent)}
    /\ nextId = 3
    /\ lastSynced = [u \in Users |-> Never]
    /\ deleteAbsent = FALSE
    /\ cache0 = cache
    /\ req = [r \in Reqs |-> FreeReq]
    /\ PageInit
    /\ AvIdle
    /\ conns = {ConnRow(u, "mail", "at0", "rt0", TRUE, <<>>) : u \in Users}
    /\ evResp = NoEvResp /\ cbResp = NoCbResp
    /\ EnvIdle /\ TplIdle /\ DraftIdle
    /\ contacts = {} /\ contactEmails = {} /\ emailMsgs = {}
    /\ meetings = SmallMeetings
    /\ meetingContacts = {}
    /\ rcResp = NoRcResp /\ mtResp = NoMtResp /\ aiResp = NoAiResp
    /\ UiIdle /\ profile = NoProfile

FrameNext ==
    \/ \E u \in Users \cup {NoUser}, b \in LinkBodies : CreateRemote(u, b)
    \/ \E r \in Reqs : CreateCache(r)
    \/ \E u \in Users \cup {NoUser}, g \in Gids, b \in PatchBodies \cup EmptyStringBodies :
          PatchRemote(u, g, b)
    \/ \E r \in Reqs : PatchCache(r)
    \/ \E u \in Users \cup {NoUser}, g \in Gids : DeleteRemote(u, g)
    \/ \E r \in Reqs : DeleteCache(r)
    \/ \E u \in Users \cup {NoUser}, b \in BusyBodies : BusyCalendars(u, b)

SpecFrame == FrameInit /\ [][FrameNext]_vars

\* ------------------------------------------------------ the compose context
MaxComposeOps == 2   \* calls of openCompose and closeCompose

\* x || ""
OrEmpty(x) == IF Truthy(x) THEN x ELSE ""

\* an option that is not given keeps the field's value
OpenStateKeeping(c, opts) ==
    [isOpen |-> TRUE,
     prefillTo |-> IF opts.to = Null THEN c.prefillTo ELSE opts.to,
     prefillName |-> IF opts.name = Null THEN c.prefillName ELSE opts.name,
     prefillSubject |-> IF opts.subject = Null THEN c.prefillSubject ELSE opts.subject,
     replyThreadId |-> IF opts.threadId = Null THEN c.replyThreadId ELSE opts.threadId,
     replyInReplyTo |-> IF opts.inReplyTo = Null THEN c.replyInReplyTo ELSE opts.inReplyTo,
     replyReferences |-> IF opts.references = Null THEN c.replyReferences ELSE opts.references,
     replyQuotedHtml |-> IF opts.quotedHtml = Null THEN c.replyQuotedHtml ELSE opts.quotedHtml]

\* the eight setters of openCompose, applied in one render
OpenState(c, opts) ==
    [isOpen |-> TRUE,
     prefillTo |-> OrEmpty(opts.to),
     prefillName |-> OrEmpty(opts.name),
     prefillSubject |-> OrEmpty(opts.subject),
     replyThreadId |-> OrEmpty(opts.threadId),
     replyInReplyTo |-> OrEmpty(opts.inReplyTo),
     replyReferences |-> OrEmpty(opts.references),
     replyQuotedHtml |-> OrEmpty(opts.quotedHtml)]

\* openCompose(opts); a call without opts is a call with no option given
OpenCompose(opts) ==
    /\ composeLog.n < MaxComposeOps
    /\ compose' = OpenState(compose, opts)
    /\ composeLog' = [n |-> composeLog.n + 1, opts |-> opts]
    /\ UNCHANGED <<baseVars, draftVars, crmVars, unreadVars, profile>>

\* closeCompose()
CloseCompose ==
    /\ composeLog.n < MaxComposeOps
    /\ compose' = Closed
    /\ composeLog' = [n |-> composeLog.n + 1, opts |-> NoOpts]
    /\ UNCHANGED <<baseVars, draftVars, crmVars, unreadVars, profile>>

ComposeOpts ==
    [to : {Null, "", "a", "b"}, name : {Null, "n"}, subject : {Null, "s"},
     threadId : {Null, "t"}, inReplyTo : {Null, "i"}, references : {Null, "r"},
     quotedHtml : {Null, "q"}]

ComposeInit == BaseIdle /\ ExtIdle

ComposeNext ==
    \/ \E opts \in ComposeOpts : OpenCompose(opts)
    \/ CloseCompose

SpecCompose == ComposeInit /\ [][ComposeNext]_vars

\* ------------------------------------------- the compose context: unreadCount
MaxFetches == 3      \* unread-count fetches started, and timers pending

FetchError == 0 - 2

\* fetch("/api/gmail/unread") is sent; result is what its response will carry, or
\* FetchError when it will be rejected
StartFetch(result) ==
    /\ fetches' = fetches \cup {[id |-> fetchLog.started + 1, result |-> result]}
    /\ fetchLog' = [started |-> fetchLog.started + 1, last |-> result]

\* getGmailConnection resolves: gmailConn is set, fetchUnreadCount is made anew
\* and the effect calls it
ConnLoaded ==
    /\ ~gmailConn
    /\ gmailConn' = TRUE
    /\ \E result \in {0, 1, 2, FetchError} : StartFetch(result)
    /\ UNCHANGED <<baseVars, draftVars, crmVars, composeVars, unreadCount, timers, profile>>

\* "careervine:unread-changed" or "careervine:email-sent": the handler sets a
\* timer for the fetchUnreadCount of the current render
UnreadEvent ==
    /\ Len(timers) + fetchLog.started < MaxFetches
    /\ timers' = Append(timers, gmailConn)
    /\ UNCHANGED <<baseVars, draftVars, crmVars, composeVars, gmailConn, unreadCount,
                   fetches, fetchLog, profile>>

\* the oldest timer fires: fetchUnreadCount returns at once without a connection
TimerFire ==
    /\ timers # <<>>
    /\ timers' = Tail(timers)
    /\ IF Head(timers)
       THEN \E result \in {0, 1, 2, FetchError} : StartFetch(result)
       ELSE UNCHANGED <<fetches, fetchLog>>
    /\ UNCHANGED <<baseVars, draftVars, crmVars, composeVars, gmailConn, unreadCount, profile>>

\* data.count || 0
CountOf(result) == IF result = FetchError THEN 0 ELSE result

\* the response of one fetch in flight arrives, in any order: the count is set,
\* or the rejection is caught and nothing is set
FetchSettled(f) ==
    /\ f \in fetches
    /\ fetches' = fetches \ {f}
    /\ unreadCount' = IF f.result = FetchError THEN unreadCount ELSE CountOf(f.result)
    /\ UNCHANGED <<baseVars, draftVars, crmVars, composeVars, gmailConn, timers, fetchLog, profile>>

UnreadInit == BaseIdle /\ ExtIdle

UnreadNext ==
    \/ ConnLoaded
    \/ UnreadEvent
    \/ TimerFire
    \/ \E f \in fetches : FetchSettled(f)

SpecUnread == UnreadInit /\ [][UnreadNext]_vars

\* ------------------------------------------- syncs over a fixed remote calendar
Ev(g, u, t, d, s, e, p) ==
    [gid |-> g, owner |-> u, title |-> t, description |-> d,
     start_at |-> s, end_at |-> e, is_private |-> p]

\* remote calendars: empty; an event of A and one of B; a public and a private
\* event of A; an event of A that starts after the window
SyncRemotes ==
    { {},
      {Ev(1, "A", "t1", "d1", 0, 1, FALSE), Ev(2, "B", "t2", Null, 1, 2, FALSE)},
      {Ev(1, "A", "t1", "d1", 0, 1, FALSE), Ev(2, "A", "s1", "sd", 1, 2, TRUE)},
      {Ev(1, "A", "t1", "d1", 2, 3, FALSE)} }

\* caches left by earlier syncs: empty; a row with an older title; a row whose
\* event may be gone; a row that starts after the window
SyncCaches ==
    { {},
      {MkRow(1, "A", 1, "old", Null, 0, 1, FALSE)},
      {MkRow(1, "A", 2, "gone", Null, 1, 2, FALSE)},
      {MkRow(1, "A", 1, "far", Null, 2, 3, FALSE)} }

SyncInit ==
    /\ now = 0
    /\ remote \in SyncRemotes
    /\ issued = Gids
    /\ cache \in SyncCaches
    /\ nextId = 1 + Cardinality(cache)
    /\ lastSynced = [u \in Users |->
                        IF \E r \in cache : r.user_id = u THEN 0 - Cooldown ELSE Never]
    /\ deleteAbsent \in BOOLEAN
    /\ cache0 = cache
    /\ req = [r \in Reqs |-> FreeReq]
    /\ PageInit
    /\ AvIdle
    /\ OtherIdle

SyncNext ==
    \/ Tick
    \/ \E u \in Users : SyncStart(u)
    \/ \E r \in Reqs : SyncFetch(r)
    \/ \E r \in Reqs : SyncUpsert(r)
    \/ \E r \in Reqs : SyncPrune(r)
    \/ \E r \in Reqs : SyncStamp(r)

\* Syncs alone, the remote calendar never changing.
SpecSync == SyncInit /\ [][SyncNext]_vars

\* --------------------------------------------------- availability calculator
MaxBusy == 2         \* busy intervals in the calendar

DayMinutes == 1440
Iv(a, b) == [s |-> a, e |-> b]
Max(a, b) == IF a >= b THEN a ELSE b

\* "HH:MM" of a time input, as minutes of the day
ToMinutes(hm) == hm[1] * 60 + hm[2]

\* the picker's day number of day d of the range
DayNumber(d) == ((today - 1 + d) % 7) + 1

RECURSIVE SortIv(_)
SortIv(S) ==
    IF S = {} THEN <<>>
    ELSE LET m == CHOOSE x \in S : \A y \in S : x.s < y.s \/ (x.s = y.s /\ x.e <= y.e)
         IN  <<m>> \o SortIv(S \ {m})

\* a busy interval widened by the buffers
Expand(iv, before, after) == Iv(iv.s - before, iv.e + after)

RECURSIVE MergeSorted(_, _)
MergeSorted(acc, rest) ==
    IF rest = <<>> THEN acc
    ELSE LET iv == Head(rest)
             n == Len(acc)
         IN  IF n > 0 /\ iv.s <= acc[n].e
             THEN MergeSorted([acc EXCEPT ![n].e = Max(@, iv.e)], Tail(rest))
             ELSE MergeSorted(Append(acc, iv), Tail(rest))

RECURSIVE MergeLast(_, _)
\* the merged interval ends where the later interval ends
MergeLast(acc, rest) ==
    IF rest = <<>> THEN acc
    ELSE LET iv == Head(rest)
             n == Len(acc)
         IN  IF n > 0 /\ iv.s <= acc[n].e
             THEN MergeLast([acc EXCEPT ![n].e = iv.e], Tail(rest))
             ELSE MergeLast(Append(acc, iv), Tail(rest))

MergeBusyLastEnd(S) == MergeLast(<<>>, SortIv(S))

\* overlapping busy intervals merged, in ascending order
MergeBusy(S) == MergeSorted(<<>>, SortIv(S))

\* a busy interval that began before the cursor is passed over
RECURSIVE FreeWindowsLate(_, _, _)
FreeWindowsLate(cur, hi, rest) ==
    IF cur >= hi THEN <<>>
    ELSE IF rest = <<>> THEN <<Iv(cur, hi)>>
    ELSE LET b == Head(rest)
         IN  IF b.e <= cur THEN FreeWindowsLate(cur, hi, Tail(rest))
             ELSE IF b.s >= hi THEN <<Iv(cur, hi)>>
             ELSE IF b.s > cur THEN <<Iv(cur, b.s)>> \o FreeWindowsLate(b.e, hi, Tail(rest))
             ELSE FreeWindowsLate(cur, hi, Tail(rest))

\* the free time of [cur, hi) left by the merged busy list
RECURSIVE FreeWindows(_, _, _)
FreeWindows(cur, hi, rest) ==
    IF cur >= hi THEN <<>>
    ELSE IF rest = <<>> THEN <<Iv(cur, hi)>>
    ELSE LET b == Head(rest)
         IN  IF b.e <= cur THEN FreeWindows(cur, hi, Tail(rest))
             ELSE IF b.s >= hi THEN <<Iv(cur, hi)>>
             ELSE IF b.s > cur THEN <<Iv(cur, b.s)>> \o FreeWindows(b.e, hi, Tail(rest))
             ELSE FreeWindows(b.e, hi, Tail(rest))

\* the increments of g minutes that fit whole into [t, hi)
RECURSIVE Walk(_, _, _)
Walk(t, hi, g) ==
    IF t + g <= hi THEN <<Iv(t, t + g)>> \o Walk(t + g, hi, g) ELSE <<>>

RECURSIVE SlotsIn(_, _)
SlotsIn(free, g) ==
    IF free = <<>> THEN <<>>
    ELSE Walk(Head(free).s, Head(free).e, g) \o SlotsIn(Tail(free), g)

InSeq(x, sq) == \E i \in 1..Len(sq) : sq[i] = x

\* the working-time window of day d
WorkWindow(q, d) ==
    Iv(q.start + d * DayMinutes + ToMinutes(q.windowStart),
       q.start + d * DayMinutes + ToMinutes(q.windowEnd))

BufferedBusy(q, B) == MergeBusy({Expand(iv, q.bufferBefore, q.bufferAfter) : iv \in B})

DaySlots(q, d, merged) ==
    SlotsIn(FreeWindows(WorkWindow(q, d).s, WorkWindow(q, d).e, merged), q.duration)

\* GET /api/calendar/availability: one entry per day in range that matches the filter
RECURSIVE DaysFrom(_, _, _)
DaysFrom(q, d, merged) ==
    IF q.start + d * DayMinutes >= q.end THEN <<>>
    ELSE (IF InSeq(DayNumber(d), q.daysOfWeek)
          THEN <<[date |-> d, slots |-> DaySlots(q, d, merged)]>>
          ELSE <<>>) \o DaysFrom(q, d + 1, merged)

Availability(q, B) == DaysFrom(q, 0, BufferedBusy(q, B))

\* ------------------------------------------------------ availability picker
Durations == {30, 60}
DaysAheadOptions == {3, 7}
WindowStarts == {<<9, 0>>, <<10, 30>>}
WindowEnds == {<<18, 0>>, <<11, 0>>}
BufferValues == {0, 10}
ToggleDays == {1, 6}

\* busy intervals: three around 10:00 today that overlap or touch, a whole working
\* day, a night across midnight, and one on the third day
BusyPool ==
    { Iv(540, 600), Iv(570, 630), Iv(600, 660), Iv(480, 1140), Iv(1380, 2040),
      Iv(2 * DayMinutes + 600, 2 * DayMinutes + 660) }

AvInit ==
    /\ picker = PickerDefault
    /\ pickerOpen = TRUE
    /\ busy \in {B \in SUBSET BusyPool : Cardinality(B) <= MaxBusy}
    /\ today \in {1, 6}
    /\ avDays = <<>>
    /\ avMerged = <<>>
    /\ avError = ""

RECURSIVE InsertSorted(_, _)
InsertSorted(sq, d) ==
    IF sq = <<>> THEN <<d>>
    ELSE IF d <= Head(sq) THEN <<d>> \o sq
    ELSE <<Head(sq)>> \o InsertSorted(Tail(sq), d)

\* toggleDay
ToggleDaySeq(sq, d) ==
    IF InSeq(d, sq) THEN SelectSeq(sq, LAMBDA x : x # d) ELSE InsertSorted(sq, d)

\* a setting changes; the response of an earlier insert is gone
Setting(p) ==
    /\ pickerOpen
    /\ picker' = p
    /\ avDays' = <<>>
    /\ avMerged' = <<>>
    /\ UNCHANGED <<pickerOpen, busy, today, avError, calVars, pageVars, otherVars>>

ToggleDay(d) == Setting([picker EXCEPT !.daysOfWeek = ToggleDaySeq(@, d)])
SetWindowStart(v) == v # picker.windowStart /\ Setting([picker EXCEPT !.windowStart = v])
SetWindowEnd(v) == v # picker.windowEnd /\ Setting([picker EXCEPT !.windowEnd = v])
SetDuration(v) == v # picker.duration /\ Setting([picker EXCEPT !.duration = v])
SetDaysAhead(v) == v # picker.daysAhead /\ Setting([picker EXCEPT !.daysAhead = v])
SetBufferBefore(v) == v # picker.bufferBefore /\ Setting([picker EXCEPT !.bufferBefore = v])
SetBufferAfter(v) == v # picker.bufferAfter /\ Setting([picker EXCEPT !.bufferAfter = v])

\* the day numbers are sent as array indexes
InsertParamsDayIndex(p) ==
    [start |-> 0, end |-> p.daysAhead * DayMinutes,
     daysOfWeek |-> [i \in 1..Len(p.daysOfWeek) |-> p.daysOfWeek[i] - 1],
     windowStart |-> p.windowStart, windowEnd |-> p.windowEnd, duration |-> p.duration,
     bufferBefore |-> p.bufferBefore, bufferAfter |-> p.bufferAfter]

\* the two buffers change places
InsertParamsSwapped(p) ==
    [start |-> 0, end |-> p.daysAhead * DayMinutes, daysOfWeek |-> p.daysOfWeek,
     windowStart |-> p.windowStart, windowEnd |-> p.windowEnd, duration |-> p.duration,
     bufferBefore |-> p.bufferAfter, bufferAfter |-> p.bufferBefore]

\* handleInsert: the query it sends, from today 00:00 to daysAhead days later
InsertParams(p) ==
    [start |-> 0, end |-> p.daysAhead * DayMinutes, daysOfWeek |-> p.daysOfWeek,
     windowStart |-> p.windowStart, windowEnd |-> p.windowEnd, duration |-> p.duration,
     bufferBefore |-> p.bufferBefore, bufferAfter |-> p.bufferAfter]

NotConnected == "Connect Google Calendar in Settings to use this feature."
NeverSynced == "Your calendar hasn't synced yet. Visit the Calendar page to sync."
FetchFailed == "Failed to fetch availability"
NoAvailability == "No availability found for the selected range."

\* days without a slot are taken for no availability
InsertErrorNoSlots(outcome, days) ==
    CASE outcome = "notConnected" -> NotConnected
      [] outcome = "neverSynced" -> NeverSynced
      [] outcome = "error" -> FetchFailed
      [] \A i \in 1..Len(days) : days[i].slots = <<>> -> NoAvailability
      [] OTHER -> ""

\* handleInsert: the error it sets for a response; "" when it inserts the text
InsertError(outcome, days) ==
    CASE outcome = "notConnected" -> NotConnected
      [] outcome = "neverSynced" -> NeverSynced
      [] outcome = "error" -> FetchFailed
      [] days = <<>> -> NoAvailability
      [] OTHER -> ""

\* handleInsert: the request, and what the picker does with the response
HandleInsert ==
    /\ pickerOpen
    /\ \E outcome \in {"ok", "notConnected", "neverSynced", "error"} :
         LET days == IF outcome = "ok" THEN Availability(InsertParams(picker), busy) ELSE <<>>
         IN  /\ avDays' = days
             /\ avMerged' = IF outcome = "ok" THEN BufferedBusy(InsertParams(picker), busy)
                            ELSE <<>>
             /\ avError' = InsertError(outcome, days)
             /\ pickerOpen' = (InsertError(outcome, days) # "")
    /\ UNCHANGED <<picker, busy, today, calVars, pageVars, otherVars>>

\* the panel is opened again
OpenPicker ==
    /\ ~pickerOpen
    /\ pickerOpen' = TRUE
    /\ avError' = ""
    /\ avDays' = <<>>
    /\ avMerged' = <<>>
    /\ UNCHANGED <<picker, busy, today, calVars, pageVars, otherVars>>

AvNext ==
    \/ \E d \in ToggleDays : ToggleDay(d)
    \/ \E v \in WindowStarts : SetWindowStart(v)
    \/ \E v \in WindowEnds : SetWindowEnd(v)
    \/ \E v \in Durations : SetDuration(v)
    \/ \E v \in DaysAheadOptions : SetDaysAhead(v)
    \/ \E v \in BufferValues : SetBufferBefore(v)
    \/ \E v \in BufferValues : SetBufferAfter(v)
    \/ HandleInsert
    \/ OpenPicker

\* The picker and the availability calculator; the calendar routes are idle.
AvailInit == CalInit /\ remote = {} /\ ~deleteAbsent /\ PageInit /\ AvInit /\ OtherIdle

SpecAvail == AvailInit /\ [][AvNext]_vars

\* -------------------------------------------- the picker's default profile
MaxLoads == 2        \* loads of the profile

\* a buffer that is not stored
NoBuffer == 0 - 1

\* x ?? d
Nullish(x, d) == IF x = NoBuffer THEN d ELSE x

\* profileData: one entry for each selected day, with the stored index one less
\* than the picker's day number
ProfileData(p) ==
    [i \in 1..Len(p.daysOfWeek) |->
        [day |-> p.daysOfWeek[i] - 1, enabled |-> TRUE,
         startTime |-> p.windowStart, endTime |-> p.windowEnd,
         bufferBefore |-> p.bufferBefore, bufferAfter |-> p.bufferAfter]]

\* "Save as default": the profile is posted and stored as it is
SaveDefault ==
    /\ pickerOpen
    /\ profile' = [profile EXCEPT !.saved = TRUE, !.workingDays = ProfileData(picker),
                                  !.from = picker]
    /\ UNCHANGED <<baseVars, draftVars, crmVars, uiVars>>

\* the settings after load() has read the per-day profile
LoadState(p, workingDays) ==
    LET enabled == SelectSeq(workingDays, LAMBDA d : d.enabled)
        enabledDays == [i \in 1..Len(enabled) |-> enabled[i].day + 1]
    IN  [p EXCEPT
           !.daysOfWeek = IF Len(enabledDays) > 0 THEN enabledDays ELSE @,
           !.windowStart = IF enabled # <<>> THEN enabled[1].startTime ELSE @,
           !.windowEnd = IF enabled # <<>> THEN enabled[1].endTime ELSE @,
           !.bufferBefore = IF enabled # <<>> THEN Nullish(enabled[1].bufferBefore, 10) ELSE @,
           !.bufferAfter = IF enabled # <<>> THEN Nullish(enabled[1].bufferAfter, 10) ELSE @]

\* the effect that runs when the picker opens, once its fetches have answered
LoadProfile ==
    /\ pickerOpen
    /\ profile.saved
    /\ profile.loads < MaxLoads
    /\ picker' = LoadState(picker, profile.workingDays)
    /\ profile' = [profile EXCEPT !.loads = @ + 1]
    /\ UNCHANGED <<pickerOpen, busy, today, avDays, avMerged, avError, calVars, pageVars,
                   conns, evResp, cbResp, envVars, tplVars, draftVars, crmVars, uiVars>>

\* the page is left and opened again: the picker is mounted with its useState
\* initial values and opened
Remount ==
    /\ picker # PickerDefault
    /\ picker' = PickerDefault
    /\ UNCHANGED <<pickerOpen, busy, today, avDays, avMerged, avError, calVars, pageVars,
                   otherVars>>

ProfileInit ==
    /\ CalInit /\ remote = {} /\ ~deleteAbsent
    /\ PageInit
    /\ picker \in {PickerDefault, [PickerDefault EXCEPT !.daysOfWeek = <<1>>]}
    /\ pickerOpen = TRUE
    /\ busy = {} /\ today = 1
    /\ avDays = <<>> /\ avMerged = <<>> /\ avError = ""
    /\ OtherIdle

ProfileNext ==
    \/ \E d \in ToggleDays : ToggleDay(d)
    \/ \E v \in WindowStarts : SetWindowStart(v)
    \/ \E v \in WindowEnds : SetWindowEnd(v)
    \/ \E v \in BufferValues : SetBufferBefore(v)
    \/ \E v \in BufferValues : SetBufferAfter(v)
    \/ SaveDefault
    \/ LoadProfile
    \/ Remount

SpecProfile == ProfileInit /\ [][ProfileNext]_vars

\* ================================================================ claims
InProgress(r) == req[r].pc \notin {"free", "done"}
Mutation(r) == req[r].kind \in {"create", "patch", "delete"}
SyncsOf(u) == {r \in Reqs : req[r].kind = "sync" /\ req[r].user = u}

\* C1: create-event, PATCH and DELETE write the cache only after the remote call of
\* the same request succeeded; a request whose remote call fails answers 500, is
\* over, and leaves the cache as it was.
C1_CacheAfterRemote ==
    [][\A r \in Reqs :
          /\ (req'[r].remoteOk = "fail" /\ req[r].remoteOk # "fail")
                => /\ cache' = cache
                   /\ req'[r].pc = "done" /\ req'[r].resp = 500 /\ ~req'[r].wrote
          /\ (Mutation(r) /\ cache' # cache /\ req'[r].pc # req[r].pc) => req[r].remoteOk = "ok"
          /\ (Mutation(r) /\ req'[r].wrote /\ ~req[r].wrote) => req[r].remoteOk = "ok"
          /\ req[r].pc = "done" => req'[r] = req[r]]_vars

C1_Witness ==
    /\ \E r \in Reqs : req[r].kind = "patch" /\ req[r].remoteOk = "fail" /\ req[r].resp = 500
    /\ \E r \in Reqs : req[r].kind = "create" /\ req[r].remoteOk = "ok" /\ req[r].wrote
    /\ cache # {}

\* C2: a private event's title and description are in no event-list response and
\* no rendered view; the event shows as "Private event" and "Busy" only.
C2_PrivateMasked ==
    \A i \in 1..Len(pageEvents) :
        pageEvents[i].is_private =>
            /\ pageEvents[i].title = Null
            /\ pageEvents[i].description = Null
            /\ RenderList(pageEvents[i]) = [heading |-> "Private event", description |-> Null]
            /\ RenderWeek(pageEvents[i]) = "Busy"

\* C3: a sync that arrives while the user's recorded sync timestamp is younger than
\* the cooldown answers 429 without fetching or writing; the page then shows
\* 'Synced recently' and keeps its event list without loading it again.
C3_SecondSyncRejected ==
    [][/\ \A r \in Reqs :
            (/\ req[r].pc = "free" /\ req'[r].kind = "sync" /\ req'[r].user \in Users
             /\ lastSynced[req'[r].user] # Never
             /\ now < lastSynced[req'[r].user] + Cooldown)
               => /\ req'[r].pc = "done" /\ req'[r].resp = 429
                  /\ ~req'[r].fetched /\ ~req'[r].wrote
                  /\ cache' = cache /\ lastSynced' = lastSynced
       /\ \A r \in Reqs : req[r].pc = "done" => req'[r] = req[r]
       /\ (pagePc = "syncing" /\ pagePc' # "syncing" /\ req[pageReq].resp = 429)
               => /\ pageError' = SyncedRecently
                  /\ pagePc' = "idle"
                  /\ pageEvents' = pageEvents]_vars

C3_Witness ==
    /\ pagePc = "idle" /\ pageError = SyncedRecently
    /\ pageReq \in Reqs /\ req[pageReq].resp = 429
    /\ \E r \in SyncsOf(PageUser) : req[r].resp = 200

\* C4 as claimed: at most one sync per user is in progress at any time.
C4_OneSyncPerUser ==
    \A u \in Users : Cardinality({r \in SyncsOf(u) : InProgress(r)}) <= 1

\* C4 as amended: syncs of a user are kept apart by the cooldown check alone: a sync
\* goes into progress only when the user has no recorded sync timestamp younger than
\* the cooldown, and a sync records its timestamp only as its last step.
C4_AdmittedByCooldown ==
    [][\A r \in Reqs :
          /\ (req[r].pc = "free" /\ req'[r].kind = "sync" /\ req'[r].pc # "done")
                => \/ lastSynced[req'[r].user] = Never
                   \/ now >= lastSynced[req'[r].user] + Cooldown
          /\ \A u \in Users :
                lastSynced'[u] # lastSynced[u]
                    => \E q \in SyncsOf(u) : InProgress(q) /\ req'[q].pc = "done"
                                             /\ req'[q].resp = 200]_vars

C4_Witness ==
    \E u \in Users : Cardinality({r \in SyncsOf(u) : InProgress(r)}) = 2

\* C7: the cache holds at most one row for each (user, remote event id).
C7_OneRowPerEvent ==
    \A r1, r2 \in cache :
        (r1.user_id = r2.user_id /\ r1.google_event_id = r2.google_event_id) => r1 = r2

\* a create-event whose insert met the row a concurrent sync had upserted
C7_Witness ==
    /\ \E r \in Reqs : req[r].kind = "create" /\ req[r].resp = 200 /\ req[r].cacheErr = "conflict"
    /\ \E r \in Reqs : req[r].kind = "sync" /\ req[r].wrote
    /\ cache # {}

\* a row without its identity column
Content(r) == [r EXCEPT !.id = 0]
RowsOf(c, u) == {r \in c : r.user_id = u}

\* What one sync of u leaves of u's rows, starting from cache0: a cleared or copied
\* row per fetched event, and the earlier rows of events the fetch did not return
\* (those in the window only when the sync does not delete them).
AfterOneSync(u) ==
    {Content(SyncRow(0, u, e)) : e \in FetchWindow(u)}
    \cup {Content(r) : r \in {x \in RowsOf(cache0, u) :
                                /\ \A e \in FetchWindow(u) : e.gid # x.google_event_id
                                /\ ~(deleteAbsent /\ InWindow(x.start_at))}}

AllDone(S) == \A r \in S : req[r].pc = "done"

\* C5: with the remote calendar unchanged, once every sync of a user has finished
\* and one has succeeded, the user's rows are those a single sync leaves, however
\* the syncs' fetch and upsert steps interleaved.
C5_SyncsConverge ==
    \A u \in Users :
        (AllDone(SyncsOf(u)) /\ \E r \in SyncsOf(u) : req[r].resp = 200)
            => {Content(r) : r \in RowsOf(cache, u)} = AfterOneSync(u)

\* two successful syncs of A that overlapped: the cooldown has not passed since
\* the behaviour began, and both wrote
C5_Witness ==
    /\ Cardinality({r \in SyncsOf("A") : req[r].resp = 200 /\ req[r].wrote}) = 2
    /\ now < Cooldown
    /\ cache # cache0

Synced(u) == \E r \in SyncsOf(u) : req[r].resp = 200

\* C6 as claimed: after a successful sync every remote event in the window has a
\* cache row with the same id and field values, and no cache row in the window is
\* of an event that is gone remotely.
C6_CacheEqualsRemote ==
    \A u \in Users :
        Synced(u) =>
            /\ \A e \in FetchWindow(u) :
                 \E r \in RowsOf(cache, u) :
                    /\ r.google_event_id = e.gid
                    /\ r.title = e.title /\ r.description = e.description
                    /\ r.start_at = e.start_at /\ r.end_at = e.end_at
                    /\ r.is_private = e.is_private
            /\ \A r \in RowsOf(cache, u) :
                 InWindow(r.start_at) => RemoteHas(u, r.google_event_id)

\* C6 as amended: after a successful sync every remote event in the window has a
\* cache row with the same id, times and private flag, and the same title and
\* description unless the event is private, whose row has both cleared; rows of
\* events that are gone remotely are out of the window when the sync deletes absent
\* events, and may stay when it does not.
C6_CacheMirrorsRemote ==
    \A u \in Users :
        Synced(u) =>
            /\ \A e \in FetchWindow(u) :
                 \E r \in RowsOf(cache, u) :
                    /\ r.google_event_id = e.gid
                    /\ r.start_at = e.start_at /\ r.end_at = e.end_at
                    /\ r.is_private = e.is_private
                    /\ r.title = IF e.is_private THEN Null ELSE e.title
                    /\ r.description = IF e.is_private THEN Null ELSE e.description
            /\ deleteAbsent =>
                 \A r \in RowsOf(cache, u) :
                    InWindow(r.start_at) => RemoteHas(u, r.google_event_id)

\* a successful sync that cleared a private event and updated an older row
C6_Witness ==
    /\ Synced("A")
    /\ \E r \in RowsOf(cache, "A") : r.is_private /\ r.title = Null
    /\ \E e \in FetchWindow("A") : e.is_private
    /\ cache # cache0


\* ---------------------------------------------------------------- availability
SeqSet(sq) == {sq[i] : i \in 1..Len(sq)}
Covered(t, S) == \E iv \in S : iv.s <= t /\ t < iv.e
Overlap(x, y) == x.s < y.e /\ y.s < x.e
Widened == {Iv(iv.s - picker.bufferBefore, iv.e + picker.bufferAfter) : iv \in busy}
AllSlots == UNION {SeqSet(avDays[i].slots) : i \in 1..Len(avDays)}

\* C8: the merged busy list is pairwise non-overlapping and covers exactly the
\* minutes the (buffered) busy intervals cover; [9:00,10:00) and [9:30,10:30)
\* merge to the single interval [9:00,10:30).
C8_MergedBusy ==
    avDays # <<>> =>
        LET M == SeqSet(avMerged)
            points == UNION {{iv.s, iv.e} : iv \in M \cup Widened}
        IN  /\ \A i, j \in 1..Len(avMerged) : i # j => ~Overlap(avMerged[i], avMerged[j])
            /\ \A t \in points : Covered(t, M) <=> Covered(t, Widened)
            /\ (busy = {Iv(540, 600), Iv(570, 630)} /\ picker.bufferBefore = 0
                    /\ picker.bufferAfter = 0)
                 => avMerged = <<Iv(540, 630)>>

C8_Witness ==
    /\ avDays # <<>>
    /\ busy = {Iv(540, 600), Iv(570, 630)}
    /\ picker.bufferBefore = 0 /\ picker.bufferAfter = 0
    /\ avMerged = <<Iv(540, 630)>>

\* C9: no returned slot intersects [s - bufferBefore, e + bufferAfter) of any busy
\* interval [s, e); with 10-minute buffers around [10:00,11:00) no slot
\* intersects [9:50,11:10).
C9_BuffersKeptFree ==
    /\ \A sl \in AllSlots : \A iv \in Widened : ~Overlap(sl, iv)
    /\ (Iv(600, 660) \in busy /\ picker.bufferBefore = 10 /\ picker.bufferAfter = 10)
         => \A sl \in AllSlots : ~Overlap(sl, Iv(590, 670))

C9_Witness ==
    /\ busy = {Iv(600, 660)}
    /\ picker.bufferBefore = 10 /\ picker.bufferAfter = 10
    /\ Iv(540, 570) \in AllSlots
    /\ Iv(670, 700) \in AllSlots

\* C10: every returned slot is one whole increment of the chosen duration, lies
\* inside the working window of its day, its day is in the range and matches the
\* day-of-week filter, and the slot is free of buffered busy time.
C10_SlotsWellFormed ==
    \A i \in 1..Len(avDays) :
        LET d == avDays[i].date
            lo == d * 1440 + picker.windowStart[1] * 60 + picker.windowStart[2]
            hi == d * 1440 + picker.windowEnd[1] * 60 + picker.windowEnd[2]
        IN  /\ d \in 0..(picker.daysAhead - 1)
            /\ (((today - 1 + d) % 7) + 1) \in SeqSet(picker.daysOfWeek)
            /\ \A sl \in SeqSet(avDays[i].slots) :
                 /\ sl.e - sl.s = picker.duration
                 /\ lo <= sl.s /\ sl.e <= hi
                 /\ \A iv \in Widened : ~Overlap(sl, iv)

C10_Witness ==
    /\ today = 6
    /\ picker.daysOfWeek = <<1, 2, 3, 4, 5>>
    /\ Iv(2 * 1440 + 600, 2 * 1440 + 660) \in busy
    /\ avDays # <<>>
    /\ avDays[1].date = 2
    /\ avDays[1].slots # <<>>

\* the working window of the day of entry i, as the picker asked for it
WindowOf(i) ==
    Iv(avDays[i].date * 1440 + picker.windowStart[1] * 60 + picker.windowStart[2],
       avDays[i].date * 1440 + picker.windowEnd[1] * 60 + picker.windowEnd[2])

\* the buffered busy intervals leave no minute of w free: its start is busy, and
\* so is every minute of w at which a busy interval ends
FullyBusy(w) ==
    /\ Covered(w.s, Widened)
    /\ \A iv \in Widened : (w.s <= iv.e /\ iv.e < w.e) => Covered(iv.e, Widened)

\* C11: a day whose working window is covered by the buffered busy intervals
\* has zero slots; so has 09:00 to 18:00 on a fully busy day.
C11_FullyBusyDayEmpty ==
    \A i \in 1..Len(avDays) : FullyBusy(WindowOf(i)) => avDays[i].slots = <<>>

C11_Witness ==
    /\ Iv(480, 1140) \in busy
    /\ picker.windowStart = <<9, 0>> /\ picker.windowEnd = <<18, 0>>
    /\ Len(avDays) >= 2
    /\ avDays[1].date = 0 /\ avDays[1].slots = <<>>
    /\ avDays[2].slots # <<>>

\* the days of the picker's range that match its day filter
MatchingDays ==
    {d \in 0..(picker.daysAhead - 1) : (((today - 1 + d) % 7) + 1) \in SeqSet(picker.daysOfWeek)}

\* C12: in a response every day in range that matches the filter has an entry,
\* with or without slots; the picker takes a response with entries as a success
\* (no error, the text is inserted and the panel closes) also when entries have
\* no slot, and it reports "No availability" only when no day matched at all.
C12_EmptyDayNoError ==
    [][(pickerOpen /\ picker' = picker) =>
          /\ avDays' # <<>> =>
                /\ \A d \in MatchingDays : \E i \in 1..Len(avDays') : avDays'[i].date = d
                /\ avError' = "" /\ ~pickerOpen'
          /\ avError' = NoAvailability => MatchingDays = {}]_vars

\* the only day that matched has no free slot, and the picker inserted the result
C12_Witness ==
    /\ Len(avDays) = 1 /\ avDays[1].slots = <<>>
    /\ MatchingDays = {avDays[1].date}
    /\ avError = "" /\ ~pickerOpen

\* ------------------------------------------------------------ error handling
Write(r) == req[r].kind \in {"create", "patch", "delete", "busy"}

\* C13: a create-event, PATCH, DELETE or busy-calendars request whose storage
\* write failed answers 500, never success.
C13_StorageFailureIs500 ==
    \A r \in Reqs : (Write(r) /\ Done(r) /\ req[r].cacheErr # "none") => req[r].resp = 500

\* C14: when create-event's cache insert fails after the remote event was made,
\* the step that ends the request leaves the remote calendar and the cache as
\* they are, and the request answers success with the new googleEventId.
C14_InsertFailureOnlyLogged ==
    [][\A r \in Reqs :
          (/\ req[r].kind = "create" /\ req[r].pc = "cache"
           /\ req'[r].pc = "done" /\ req'[r].cacheErr # "none")
             => /\ req'[r].resp = 200
                /\ req'[r].gid = req[r].gid /\ req[r].gid \in Gids
                /\ remote' = remote
                /\ cache' = cache]_vars

\* a create-event that answered success, its event remote and not in the cache
C14_Witness ==
    \E r \in Reqs :
        /\ req[r].kind = "create" /\ Done(r) /\ req[r].resp = 200
        /\ req[r].cacheErr = "failed"
        /\ RemoteHas(req[r].user, req[r].gid)
        /\ RowsFor(cache, req[r].user, req[r].gid) = {}

\* request r arrives in this step and is turned away with `code`: no remote call,
\* no row written
Rejected(r, code) ==
    /\ req'[r].pc = "done" /\ req'[r].resp = code
    /\ req'[r].remoteOk = "none" /\ ~req'[r].wrote
    /\ remote' = remote /\ issued' = issued /\ cache' = cache /\ conns' = conns

\* C15: a create-event, PATCH, DELETE or busy-calendars request without a user is
\* answered 401, and a create-event request that lacks summary, startTime or
\* endTime, or a busy-calendars request whose busyCalendarIds is no array, is
\* answered 400; neither makes a remote call nor writes a row.
C15_RejectedBeforeAnyCall ==
    [][\A r \in Reqs :
          (req[r].pc = "free" /\ req'[r].pc # "free"
             /\ req'[r].kind \in {"create", "patch", "delete", "busy"})
             => /\ req'[r].user = NoUser => Rejected(r, 401)
                /\ (req'[r].user # NoUser /\ req'[r].malformed) => Rejected(r, 400)]_vars

C15_Witness ==
    /\ \E r \in Reqs : req[r].kind = "create" /\ req[r].malformed /\ req[r].resp = 400
    /\ \E r \in Reqs : req[r].kind \in {"patch", "delete", "busy"} /\ req[r].resp = 401
    /\ cache = {} /\ issued = {e.gid : e \in remote}

\* the user's rows after the events K of a fetch were upserted over cache0
AfterUpserts(u, K) ==
    {Content(SyncRow(0, u, e)) : e \in K}
    \cup {Content(x) : x \in {y \in RowsOf(cache0, u) :
                                 \A e \in K : e.gid # y.google_event_id}}

\* C16: the step in which a sync fails answers 500 and changes no row; when it was
\* the user's only sync, the user's rows are the earlier rows with the events
\* upserted before the failure, not the rows from before the sync.
C16_PartialSyncKept ==
    [][\A r \in Reqs :
          (req[r].kind = "sync" /\ InProgress(r) /\ req'[r].pc = "done" /\ req'[r].resp # 200)
             => /\ req'[r].resp = 500
                /\ cache' = cache
                /\ lastSynced' = lastSynced
                /\ SyncsOf(req[r].user) = {r} =>
                     \E K \in SUBSET FetchWindow(req[r].user) :
                        /\ {Content(x) : x \in RowsOf(cache', req[r].user)}
                             = AfterUpserts(req[r].user, K)
                        /\ req[r].wrote => K # {}
                        /\ K \cup req[r].todo = FetchWindow(req[r].user) \/ ~req[r].fetched]_vars

\* a sync that failed after its first upsert, the only sync so far
C16_Witness ==
    \E r \in Reqs :
        /\ req[r].kind = "sync" /\ Done(r) /\ req[r].resp = 500 /\ req[r].wrote
        /\ SyncsOf(req[r].user) = {r}
        /\ \A q \in Reqs \ {r} : req[q].pc = "free"
        /\ cache # cache0
        /\ \E e \in FetchWindow(req[r].user) :
              RowsFor(cache, req[r].user, e.gid) = {}

\* C17: a 200 response of GET /api/calendar/events holds each cached row of the
\* caller whose start_at is within the bounds given, once, no other row, in
\* ascending start_at; a caller without a user gets 401 and no events.
C17_EventsInRange ==
    /\ evResp.user = NoUser /\ evResp.status # 0
         => evResp.status = 401 /\ evResp.events = <<>>
    /\ evResp.status = 200 =>
         /\ \A i \in 1..Len(evResp.events) :
               /\ evResp.events[i].user_id = evResp.user
               /\ evResp.events[i] \in cache
               /\ evResp.lo # NoTime => evResp.lo <= evResp.events[i].start_at
               /\ evResp.hi # NoTime => evResp.events[i].start_at <= evResp.hi
         /\ \A r \in cache :
               (/\ r.user_id = evResp.user
                /\ (evResp.lo # NoTime => evResp.lo <= r.start_at)
                /\ (evResp.hi # NoTime => r.start_at <= evResp.hi))
                  => \E i \in 1..Len(evResp.events) : evResp.events[i] = r
         /\ \A i, j \in 1..Len(evResp.events) :
               i < j => /\ evResp.events[i].start_at <= evResp.events[j].start_at
                        /\ evResp.events[i] # evResp.events[j]

\* a bounded read by A that returned two rows and left out a row of A and one of B
C17_Witness ==
    /\ evResp.status = 200 /\ evResp.user = "A"
    /\ evResp.lo = 1 /\ evResp.hi = 1
    /\ Len(evResp.events) = 2
    /\ \E r \in cache : r.user_id = "B"
    /\ \E r \in cache : r.user_id = "A" /\ r.start_at # 1

\* ------------------------------------------------------------ Gmail callback
OneConnPerUser(c) == \A r1, r2 \in c : r1.user_id = r2.user_id => r1 = r2

\* the callback that answered b is for a validated request
Validated(b) ==
    /\ b.user \in Users /\ b.state = b.user
    /\ b.access_token # Null /\ b.refresh_token # Null

\* a callback stores a row only for a validated request, and a user never has
\* two rows
StoresOnlyValidated ==
    /\ conns' # conns => (Validated(cbResp') /\ cbResp'.target = SettingsConnected)
    /\ cbResp'.target # SettingsConnected => conns' = conns
    /\ OneConnPerUser(conns')

\* C18 as claimed: a row is stored only for a validated request; a state mismatch
\* answers 403 and every other failure redirects to the settings error page.
C18_OtherFailuresRedirect ==
    [][/\ StoresOnlyValidated
       /\ cbResp'.target # SettingsConnected =>
             \/ cbResp'.status = 403 /\ cbResp'.state # cbResp'.user
             \/ cbResp'.status = 302 /\ cbResp'.target = SettingsError]_vars

\* C18 as amended: a row is stored only for a validated request; without Google's
\* error parameter, a request that lacks code or state answers 400, one without a
\* user 401, one whose state is not the user's id 403; Google's error parameter
\* and every later failure redirect to the settings error page.
C18_FailuresByKind ==
    [][/\ StoresOnlyValidated
       /\ cbResp'.target # SettingsConnected =>
             \/ cbResp'.status = 302 /\ cbResp'.target = SettingsError
             \/ /\ cbResp'.error = Null
                /\ \/ cbResp'.status = 400 /\ (cbResp'.code = Null \/ cbResp'.state = Null)
                   \/ cbResp'.status = 401 /\ cbResp'.user = NoUser
                   \/ cbResp'.status = 403 /\ cbResp'.user \in Users
                                           /\ cbResp'.state # cbResp'.user
       /\ (cbResp'.error = Null /\ cbResp'.code # Null /\ cbResp'.state # Null
              /\ cbResp'.user \in Users /\ cbResp'.state # cbResp'.user)
            => cbResp'.status = 403]_vars

\* A connected a second time and the row was replaced, keeping its calendars
C18_Witness ==
    /\ cbResp.target = SettingsConnected /\ cbResp.user = "A"
    /\ conns = {ConnRow("A", "mail1", "at1", "rt1", TRUE, <<"c1">>)}

\* ------------------------------------------------------------ getSupabaseEnv
IsSet(x) == x # Null /\ x # ""
LocalValues == [url |-> env.URL_LOCAL, anonKey |-> env.ANON_KEY_LOCAL,
                serviceRoleKey |-> env.SERVICE_ROLE_KEY_LOCAL]
RemoteValues == [url |-> env.URL, anonKey |-> env.ANON_KEY,
                 serviceRoleKey |-> env.SERVICE_ROLE_KEY]
LocalChosen ==
    env.NODE_ENV = "development" /\ IsSet(env.URL_LOCAL) /\ IsSet(env.ANON_KEY_LOCAL)
Chosen == IF LocalChosen THEN LocalValues ELSE RemoteValues

\* C19: getSupabaseEnv takes the local values exactly when NODE_ENV is development
\* and the local url and anon key are set, else the remote ones; all three values
\* it returns are of that one environment; it throws exactly when the chosen url
\* or anon key is missing, or server is asked for and the chosen service role key
\* is missing.
C19_OneEnvironment ==
    envRes.called =>
        /\ envRes.thrown <=> \/ ~IsSet(Chosen.url) \/ ~IsSet(Chosen.anonKey)
                             \/ (envRes.server /\ ~IsSet(Chosen.serviceRoleKey))
        /\ ~envRes.thrown =>
             /\ envRes.isLocal = LocalChosen
             /\ [url |-> envRes.url, anonKey |-> envRes.anonKey,
                 serviceRoleKey |-> envRes.serviceRoleKey] = Chosen

\* development with an empty local url and every other value set: the remote
\* values are used although local ones exist
C19_Witness ==
    /\ envRes.called /\ ~envRes.thrown /\ envRes.server
    /\ env.NODE_ENV = "development" /\ env.URL_LOCAL = "" /\ env.SERVICE_ROLE_KEY_LOCAL = "lsrk"
    /\ envRes.url = "url" /\ envRes.serviceRoleKey = "srk" /\ ~envRes.isLocal

C21_DraftPostFrame ==
    [][ (draftResp'.n # draftResp.n /\ draftResp'.user \in Users) =>
          LET q == draftResp'
              mine == DraftsFor(drafts, q.user, q.id)
          IN  IF q.id # NoId
              THEN /\ \A d \in drafts \ mine : d \in drafts'
                   /\ \A d \in drafts' \ drafts : \E x \in mine : d.id = x.id
                   /\ mine = {} => (drafts' = drafts /\ q.status = 500)
              ELSE IF q.status = 200
                   THEN \E d \in drafts' \ drafts :
                           /\ drafts' = drafts \cup {d}
                           /\ d.user_id = q.user
                   ELSE drafts' = drafts ]_vars

\* ------------------------------------------------------------ resolve-contact
\* C22: resolve-contact answers a contact id only for a contact of the signed-in
\* caller, and whenever the caller owns a contact with the given address and no
\* call fails it answers that contact's id, whatever contacts of other users
\* have the same address.
C22_ResolvesOwnContact ==
    rcResp.outcome # "none" =>
        /\ rcResp.contactId # NoId =>
              \E c \in contacts : c.id = rcResp.contactId /\ c.user_id = rcResp.user
        /\ (rcResp.user \in Users /\ rcResp.outcome = "ok") =>
              \A c \in contacts, ce \in contactEmails :
                  (/\ c.user_id = rcResp.user
                   /\ ce.contact_id = c.id
                   /\ ce.email = ToLowerCase(rcResp.email)) => rcResp.contactId = c.id

\* ------------------------------------------------------------------- meetings
\* C23: the meetings route answers only meetings of the caller that are linked to
\* the given contact and have notes or a transcript, each once, at most 20 of
\* them, most recent first; with no contactId, no signed-in user, no linked
\* meeting or a failed call it answers the empty list.
C23_MeetingsOfContact ==
    mtResp.outcome # "none" =>
        LET ms == mtResp.meetings
            linked == {l.meeting_id : l \in {k \in meetingContacts :
                                               k.contact_id = ParseInt(mtResp.contactId)}}
        IN  /\ \A i \in 1..Len(ms) :
                  /\ ms[i] \in meetings
                  /\ ms[i].user_id = mtResp.user
                  /\ ms[i].id \in linked
                  /\ Useful(ms[i])
            /\ \A i, j \in 1..Len(ms) :
                  i < j => ms[i].meeting_date >= ms[j].meeting_date /\ ms[i] # ms[j]
            /\ Len(ms) <= MeetingsLimit
            /\ (\/ ~Truthy(mtResp.contactId)
                \/ mtResp.user = NoUser
                \/ mtResp.outcome # "ok"
                \/ linked = {}) => ms = <<>>

\* more than 20 meetings of A qualify and B has a meeting linked to the same
\* contact: A gets fewer than 21, none of them B's
C23_Witness ==
    /\ mtResp.user = "A" /\ mtResp.outcome = "ok"
    /\ Len(mtResp.meetings) = MeetingsLimit - 1
    /\ Cardinality({x \in meetings : x.user_id = "A" /\ Useful(x)}) > MeetingsLimit
    /\ \E x \in meetings, l \in meetingContacts :
          x.user_id = "B" /\ l.meeting_id = x.id /\ l.contact_id = 1

\* ------------------------------------------------------------------- ai-write
\* C24: what POST /api/gmail/ai-write sends to the AI holds only data of the
\* caller: the contact's details only when the contact of contactId is the
\* caller's, and meeting notes only of meetings of the caller, so that what is
\* sent is fixed by the request and the caller's own rows.
C24_OnlyOwnData ==
    aiResp.sent =>
        LET own == {c \in contacts : c.user_id = aiResp.user}
        IN  /\ aiResp.contactContext = ContactContext(own, aiResp.contactId)
            /\ \A i \in 1..Len(aiResp.meetingContext) :
                  \E x \in meetings : /\ x.user_id = aiResp.user
                                     /\ x.id \in aiResp.meetingIds
                                     /\ aiResp.meetingContext[i] = MeetingPart(x)

\* ---------------------------------------------------------- rows of other users
OthersIn(S, u) == {x \in S : x.user_id # u}

\* C25: a step of create-event, PATCH, DELETE or busy-calendars made for user u
\* leaves every calendar_events row, every gmail_connections row and every
\* meeting of every other user as it was; a meeting that create-event links is
\* the one the body names.
C25_WritesOnlyOwnRows ==
    [][ \A r \in Reqs :
          (req'[r].pc # req[r].pc /\ req'[r].kind \in {"create", "patch", "delete", "busy"}) =>
              LET u == req'[r].user
              IN  /\ OthersIn(cache', u) = OthersIn(cache, u)
                  /\ OthersIn(conns', u) = OthersIn(conns, u)
                  /\ OthersIn(meetings', u) = OthersIn(meetings, u)
                  /\ \A x \in meetings \ meetings' :
                        req'[r].kind = "create" /\ x.id = req'[r].meetingId ]_vars

\* A has patched the shared event while B's row for the same id is still as
\* synced, and A's create-event that named B's meeting answered success and
\* left that meeting unlinked
C25_Witness ==
    /\ \E r \in Reqs : /\ req[r].kind = "patch" /\ req[r].user = "A"
                       /\ Done(r) /\ req[r].wrote
                       /\ SyncRow(1, "A", SharedEvent) \notin cache
    /\ SyncRow(2, "B", SharedEvent) \in cache
    /\ \E r \in Reqs : /\ req[r].kind = "create" /\ req[r].user = "A"
                       /\ Done(r) /\ req[r].resp = 200 /\ req[r].meetingId = 4
    /\ \A x \in meetings : x.user_id = "B" => x.calendar_event_id = 0

\* C26: when a PATCH has written the cache, the row carries every field the
\* body sent to the remote API, an empty string included, and keeps every field
\* the body did not carry.
C26_PatchMirrorsSentFields ==
    [][ \A r \in Reqs :
          (/\ req[r].kind = "patch" /\ req[r].pc = "cache"
           /\ req'[r].pc = "done" /\ req'[r].wrote) =>
              \A old \in RowsFor(cache, req[r].user, req[r].gid) :
                 \E new \in cache' :
                    LET b == req[r].body
                    IN  /\ new.id = old.id
                        /\ new.title = IF b.summary # Null THEN b.summary ELSE old.title
                        /\ new.description =
                              IF b.description # Null THEN b.description ELSE old.description
                        /\ new.start_at = IF b.startTime # NoTime THEN b.startTime ELSE old.start_at
                        /\ new.end_at = IF b.endTime # NoTime THEN b.endTime ELSE old.end_at ]_vars

\* -------------------------------------------------------- DELETE against syncs
\* every request of u is a sync or a DELETE, and all of them have finished
Quiet(u) ==
    \A r \in Reqs : req[r].user = u =>
        req[r].pc \in {"free", "done"} /\ req[r].kind \in {"none", "sync", "delete"}

\* C27: when a DELETE of user u has answered success after deleting its cache row,
\* and the syncs of u, the only other requests of u, have finished, the cache
\* holds no row of u for an event that is gone from the remote calendar, whatever
\* the order of the DELETE's steps and a sync's fetch and upsert steps.
C27_DeletedStaysDeleted ==
    \A u \in Users :
        (/\ Quiet(u)
         /\ \E d \in Reqs : /\ req[d].kind = "delete" /\ req[d].user = u
                            /\ req[d].resp = 200 /\ req[d].wrote)
            => \A row \in RowsOf(cache, u) : RemoteHas(u, row.google_event_id)

\* -------------------------------------------------------------------- compose
\* C28: after any calls of openCompose and closeCompose, a closed compose context
\* has its seven prefill and reply fields empty, and an open one has in each
\* field the value the last openCompose was given, or the empty string where it
\* was given none.
C28_ComposeFields ==
    LET o == composeLog.opts
    IN  /\ ~compose.isOpen => compose = Closed
        /\ compose.isOpen =>
              /\ compose.prefillTo = OrEmpty(o.to)
              /\ compose.prefillName = OrEmpty(o.name)
              /\ compose.prefillSubject = OrEmpty(o.subject)
              /\ compose.replyThreadId = OrEmpty(o.threadId)
              /\ compose.replyInReplyTo = OrEmpty(o.inReplyTo)
              /\ compose.replyReferences = OrEmpty(o.references)
              /\ compose.replyQuotedHtml = OrEmpty(o.quotedHtml)

\* a second call opened the context with a subject alone: the other six fields
\* are empty
C28_Witness ==
    /\ composeLog.n = 2 /\ compose.isOpen
    /\ composeLog.opts = [NoOpts EXCEPT !.subject = "s"]
    /\ compose = [Closed EXCEPT !.isOpen = TRUE, !.prefillSubject = "s"]

\* ---------------------------------------------------------------- unreadCount
\* C29: once no timer is pending and every unread-count fetch has completed,
\* unreadCount is the count that the most recently started fetch returned, in
\* whatever order the responses of overlapping fetches arrived.
C29_LastStartedWins ==
    (/\ timers = <<>> /\ fetches = {}
     /\ fetchLog.last # NoFetch /\ fetchLog.last # FetchError)
        => unreadCount = fetchLog.last

\* --------------------------------------------------------- the default profile
\* C30: loading the default profile gives the picker the days, the time window
\* and the buffers it had when the profile was saved, for every set of selected
\* days, the empty set included, a buffer of 0 staying 0.
C30_SaveLoadRoundTrip ==
    [][ profile'.loads # profile.loads =>
          /\ picker'.daysOfWeek = profile.from.daysOfWeek
          /\ picker'.windowStart = profile.from.windowStart
          /\ picker'.windowEnd = profile.from.windowEnd
          /\ picker'.bufferBefore = profile.from.bufferBefore
          /\ picker'.bufferAfter = profile.from.bufferAfter ]_vars

====
